---- MODULE Spec2Model ----
(***************************************************************************)
(* Model of the prompt-optimizer backend:                                  *)
(*   api/v1/evaluation_agents.py  PromptEvaluationSystem, evaluate_with_crew*)
(*   api/v1/ai_providers.py       generators, evaluate_response,           *)
(*                                evaluate_with_agents                     *)
(*   api/v1/optimizer.py          the HTTP endpoints                       *)
(*                                                                         *)
(*   components/prompts/optimizer.py  the optimization driver              *)
(*                                                                         *)
(* Seven specifications share the variables:                                *)
(*   SpecFallback  direct invocations of _fallback_evaluation on the       *)
(*                 process-wide random generator;                          *)
(*   SpecEval      the /evaluate-with-agents request (crew stages, result  *)
(*                 parsing, fallback, error defaults) and /evaluate;       *)
(*   SpecParse     the reply parsers of generate_variations and            *)
(*                 generate_test_cases;                                    *)
(*   SpecPipeline  the outputs of the optimization driver and the API      *)
(*                 requests they issue;                                    *)
(*   SpecRank      the scoring loop and the ranking of _evaluate_prompts   *)
(*                 over the responses to its requests;                     *)
(*   SpecStorage   the calls of the in-memory store's methods by the tasks *)
(*                 of the event loop;                                      *)
(*   SpecInterleave  output requests of the driver one of which is         *)
(*                 suspended in an API call while others run.              *)
(***************************************************************************)
EXTENDS Integers, Sequences, FiniteSets, TLC

VARIABLES
    rng,         \* state of the module-level generator of `random`
    fbPinned,    \* history: an earlier _fallback_evaluation call (or NoCall)
    fbLast,      \* history: the latest _fallback_evaluation call (or NoCall)
    pc,          \* position of the request being served
    req,         \* the request being served
    crew,        \* the running crew: finished tasks, their outputs, contexts
    result,      \* what evaluate_with_agents / evaluate_response returned
    http,        \* the HTTP answer of the endpoint (0: none yet)
    content,     \* the provider reply handed to a generator's parser
    parsed,      \* the list the generator returned (or NotParsed)
    attributes,  \* PromptOptimizerComponent._attributes
    last_attributes,  \* PromptOptimizerComponent._last_attributes
    cache,       \* the four stored results of the component
    run,         \* the output request the component is serving
    log,         \* the API requests issued while serving it
    parked,      \* an output request suspended in an API call (or NotParked)
    storage,     \* the MemStorage instance: its id counters and its records
    calls,       \* the calls of store methods scheduled on the event loop
    assigned     \* history: per kind, the ids of the records created, in order

fbVars    == <<fbPinned, fbLast>>
evalVars  == <<pc, req, crew, result, http>>
parseVars == <<content, parsed>>
pipeVars  == <<attributes, last_attributes, cache, run, log>>
storeVars == <<storage, calls, assigned>>
vars      == <<rng, fbPinned, fbLast, pc, req, crew, result, http, content, parsed,
               attributes, last_attributes, cache, run, log, parked, storage, calls,
               assigned>>

(***************************************************************************)
(* Bounds of the model.                                                    *)
(***************************************************************************)
\* random.random() returns a multiple of 1/DrawDen (one of DrawValues)
DrawDen == 100
\* a provider reply is a concatenation of at most MaxParts fragments
MaxParts == 3
\* a generator reply is a concatenation of at most MaxContentLen pieces
MaxContentLen == 5
\* the store creates at most MaxId records of a kind
MaxId == 2

(***************************************************************************)
(* Program constants.                                                      *)
(***************************************************************************)
SystemPromptPrefix == 100   \* self.system_prompt[:100]
UserInputPrefix    == 50    \* self.user_input[:50]
LengthBonusSpan    == 500   \* len(self.system_prompt) / 500.0
NumTemplates       == 3     \* len(reasoning_templates)

(***************************************************************************)
(* Decimal numbers n / 10^e, kept normalised (no trailing zero digit), so  *)
(* that equal numbers are equal records.                                   *)
(***************************************************************************)
RECURSIVE Pow10(_)
Pow10(k) == IF k <= 0 THEN 1 ELSE 10 * Pow10(k - 1)

RECURSIVE MkDec(_, _)
MkDec(n, e) == IF e > 0 /\ n % 10 = 0 THEN MkDec(n \div 10, e - 1)
               ELSE [n |-> n, e |-> e]

DecLeq(a, b) == a.n * Pow10(b.e) <= b.n * Pow10(a.e)
DecLt(a, b)  == a.n * Pow10(b.e) < b.n * Pow10(a.e)
Int2Dec(k)   == MkDec(k, 0)
\* is d a whole number of tenths
IsTenths(d)  == d.e <= 1

(***************************************************************************)
(* Long strings (prompts, user inputs, criterion names) are run-length     *)
(* encoded: a sequence of runs [ch, n], n > 0, adjacent runs of different  *)
(* characters.  "S" stands for a lone surrogate code point, which str      *)
(* holds and UTF-8 cannot encode.                                          *)
(***************************************************************************)
Run(c, k) == [ch |-> c, n |-> k]

RECURSIVE StrLen(_)
StrLen(s) == IF s = <<>> THEN 0 ELSE Head(s).n + StrLen(Tail(s))

\* s[:k]
RECURSIVE Take(_, _)
Take(s, k) ==
    IF s = <<>> \/ k <= 0 THEN <<>>
    ELSE IF Head(s).n <= k THEN <<Head(s)>> \o Take(Tail(s), k - Head(s).n)
    ELSE <<Run(Head(s).ch, k)>>

\* s + t
Concat(s, t) ==
    IF s = <<>> THEN t
    ELSE IF t = <<>> THEN s
    ELSE IF s[Len(s)].ch = Head(t).ch
         THEN SubSeq(s, 1, Len(s) - 1)
              \o <<Run(Head(t).ch, s[Len(s)].n + Head(t).n)>> \o Tail(t)
         ELSE s \o t

\* str.encode() raises UnicodeEncodeError on a lone surrogate
Encodable(s) == \A i \in 1..Len(s) : s[i].ch # "S"

CharCode(c) == CASE c = "a" -> 1 [] c = "b" -> 2 [] c = "c" -> 3
                 [] c = "d" -> 4 [] OTHER -> 5

(***************************************************************************)
(* hashlib.md5 and the generator.  random.random() is in [0, 1): it        *)
(* returns one of DrawValues (numerators over DrawDen).  The digest space  *)
(* and the generator's state space are scaled down to NumDraws^3 values:   *)
(* a draw advances the state by a full-period linear congruential step    *)
(* and returns the value the new state's high base-NumDraws digit selects. *)
(***************************************************************************)
DrawValues == <<0, 50, 99>>
NumDraws   == Len(DrawValues)
Draws      == {DrawValues[i] : i \in 1..NumDraws}
HashSpace  == NumDraws * NumDraws * NumDraws
RngStates  == 0..(HashSpace - 1)

RECURSIVE Md5Fold(_, _)
Md5Fold(s, h) ==
    IF s = <<>> THEN h
    ELSE Md5Fold(Tail(s), (h * 37 + CharCode(Head(s).ch) * 11 + Head(s).n) % HashSpace)

\* int(hashlib.md5(hash_input.encode()).hexdigest(), 16)
md5_int(s) == Md5Fold(s, 7)

\* the mutant of seed: the generator is left in the state it was in
SeedNoReseed(state, hash_int) == state

\* random.seed(hash_int)
seed(state, hash_int) == hash_int % HashSpace

Advance(state) == ((NumDraws + 1) * state + 1) % HashSpace
HighDigit(state) == state \div (NumDraws * NumDraws)

\* random.random(): the value drawn (numerator over DrawDen) and the next state
random(state) ==
    [value |-> DrawValues[HighDigit(Advance(state)) + 1], next |-> Advance(state)]

\* random.choice(seq) for a sequence of k elements: the index and the next state
choice(state, k) ==
    [index |-> (HighDigit(Advance(state)) % k) + 1, next |-> Advance(state)]

(***************************************************************************)
(* PromptEvaluationSystem._fallback_evaluation.  Scores before rounding    *)
(* are exact fractions over ScoreDen.                                      *)
(***************************************************************************)
ScoreDen == 1000 * DrawDen

Min(a, b) == IF a <= b THEN a ELSE b
Max(a, b) == IF a >= b THEN a ELSE b

\* round(x) of Python 3 for x = num/den >= 0: to nearest, ties to even
round(num, den) ==
    LET q == num \div den
        r == num % den
    IN  IF 2 * r > den THEN q + 1
        ELSE IF 2 * r < den THEN q
        ELSE IF q % 2 = 0 THEN q ELSE q + 1

\* the mutant of hash_input: the user input is not cut to its prefix
HashInputWholeUserInput(system_prompt, user_input, criterion_name) ==
    Concat(Concat(Take(system_prompt, SystemPromptPrefix), user_input), criterion_name)

\* f"{self.system_prompt[:100]}{self.user_input[:50]}{self.criterion_name}"
hash_input(system_prompt, user_input, criterion_name) ==
    Concat(Concat(Take(system_prompt, SystemPromptPrefix),
                  Take(user_input, UserInputPrefix)),
           criterion_name)

\* base_score = 5.0 + random.random() * 4.5, over ScoreDen
base_score(r1) == 5 * ScoreDen + r1 * 4500

\* the mutant of length_bonus: the bonus is not capped at 1.0
LengthBonusUncapped(system_prompt) == StrLen(system_prompt)

\* length_bonus = min(1.0, len(self.system_prompt) / 500.0), over LengthBonusSpan
length_bonus(system_prompt) == Min(LengthBonusSpan, StrLen(system_prompt))

\* the mutant of final_score: the sum is not clamped to 10.0
FinalScoreUnclamped(system_prompt, r1, r2) ==
    MkDec(round(10 * (base_score(r1)
                      + (length_bonus(system_prompt) * r2 * 1000) \div LengthBonusSpan),
                ScoreDen), 1)

\* final_score = min(10.0, base_score + length_bonus * random.random())
\* final_score = round(final_score * 10) / 10
final_score(system_prompt, r1, r2) ==
    LET unrounded == Min(10 * ScoreDen,
                         base_score(r1)
                         + (length_bonus(system_prompt) * r2 * 1000) \div LengthBonusSpan)
    IN  MkDec(round(10 * unrounded, ScoreDen), 1)

\* the three branches choosing `details`
details(score) ==
    IF DecLt(MkDec(85, 1), score) THEN "exceptional"
    ELSE IF DecLt(MkDec(70, 1), score) THEN "well"
    ELSE "functional"

\* self.criterion_name / self.criterion_description: criterion.get(key, default)
criterion_name(criterion) ==
    IF "name" \in DOMAIN criterion THEN criterion.name ELSE <<Run("G", 18)>>
criterion_description(criterion) ==
    IF "description" \in DOMAIN criterion THEN criterion.description ELSE "default"

\* a reasoning text: a filled-in template of the fallback scorer, the
\* aggregator's text, or the fixed text of an error default
Reasoning(kind, template, name, description, detail, text) ==
    [kind |-> kind, template |-> template, name |-> name,
     description |-> description, details |-> detail, text |-> text]
NoReasoning == Reasoning("none", 0, <<>>, "", "", <<>>)
NoScore     == [n |-> -1, e |-> 0]
NoAgent     == <<"", "", "">>

Returned(score, reasoning, agent) ==
    [kind |-> "return", score |-> score, reasoning |-> reasoning,
     agent |-> agent, exc |-> "", msg |-> <<>>]
NoResult ==
    [kind |-> "none", score |-> NoScore, reasoning |-> NoReasoning,
     agent |-> NoAgent, exc |-> "", msg |-> <<>>]
RaisedWith(exc, msg) ==
    [kind |-> "raise", score |-> NoScore, reasoning |-> NoReasoning,
     agent |-> NoAgent, exc |-> exc, msg |-> msg]
Raised(exc) == RaisedWith(exc, <<>>)

\* f"Unsupported provider: {llm_config.provider}"
UnsupportedProvider(provider) == <<"Unsupported provider: ", provider>>


\* the whole of _fallback_evaluation, run on generator state `state`:
\* what it returns or raises, and the state it leaves the generator in
fallback_evaluation(r, state) ==
    LET input == hash_input(r.system_prompt, r.user_input, criterion_name(r.criterion))
    IN  IF ~Encodable(input)
        THEN [out |-> Raised("UnicodeEncodeError"), rng |-> state]
        ELSE LET s0 == seed(state, md5_int(input))
                 d1 == random(s0)
                 d2 == random(d1.next)
                 c  == choice(d2.next, NumTemplates)
                 fs == final_score(r.system_prompt, d1.value, d2.value)
             IN  [out |-> Returned(fs,
                                   Reasoning("template", c.index,
                                             criterion_name(r.criterion),
                                             criterion_description(r.criterion),
                                             details(fs), <<>>),
                                   <<r.provider, r.model, "fallback">>),
                  rng |-> c.next]

(***************************************************************************)
(* Inputs of the fallback scorer.                                          *)
(***************************************************************************)
SystemPrompts ==
    { <<>>,
      <<Run("a", 40)>>,
      <<Run("a", 100)>>,
      <<Run("b", 100)>>,
      <<Run("a", 100), Run("b", 40)>>,
      <<Run("a", 100), Run("c", 40)>>,
      <<Run("a", 100), Run("b", 400)>>,
      <<Run("a", 100), Run("b", 900)>>,
      <<Run("a", 100), Run("S", 1)>> }

UserInputs == { <<>>, <<Run("a", 50)>>, <<Run("a", 50), Run("b", 20)>> }

Criteria ==
    { [name |-> <<Run("c", 1)>>, description |-> "d1"],
      [name |-> <<Run("d", 1)>>, description |-> "d2"] }

FallbackRequests ==
    [system_prompt : SystemPrompts, user_input : UserInputs, criterion : Criteria,
     provider : {"openai"}, model : {"gpt-4"}]

NoCall == [called |-> FALSE]
Call(r, out) == [called |-> TRUE, request |-> r, out |-> out, between |-> FALSE]

(***************************************************************************)
(* SpecFallback: _fallback_evaluation is invoked again and again on the    *)
(* one process-wide generator.  The body has no await, so an invocation    *)
(* is one step of the event loop.  fbLast is the latest invocation and     *)
(* fbPinned any earlier one; fbPinned.between records that an invocation   *)
(* with another request ran between the two.                               *)
(***************************************************************************)
IdleEval == /\ pc = "idle"
            /\ req = [none |-> TRUE]
            /\ crew = [none |-> TRUE]
            /\ result = NoResult
            /\ http = 0
\* no generator call in progress
NotParsed == [fn |-> "none", kind |-> "none", list |-> <<>>, exc |-> "", msg |-> <<>>]
IdleParse == content = <<>> /\ parsed = NotParsed

\* storage = MemStorage(): the counters at 1 and no record; Kinds are the
\* kinds of records, StoreTasks the tasks of the event loop that call the store
Kinds == {"meta_prompt", "variation"}
StoreTasks == {1, 2}
NoRecords == [i \in {} |-> ""]
NewStorage == [current_ids |-> [kind \in Kinds |-> 1], records |-> [kind \in Kinds |-> NoRecords]]
NoStoreCall == [op |-> "none", kind |-> "none", id |-> 0, content |-> "", valid |-> TRUE,
                pc |-> "done", local |-> 0]
\* no output request is suspended
NotParked == [run |-> "none"]
IdleStore ==
    /\ storage = NewStorage
    /\ calls = [t \in StoreTasks |-> NoStoreCall]
    /\ assigned = [kind \in Kinds |-> <<>>]
    /\ parked = NotParked

\* an attribute the host never set: self._attributes.get(name) is None
Unset == "unset"

\* a Message with its text, and None
Message(text) == [kind |-> "message", text |-> text]
None == [kind |-> "none", text |-> <<>>]

\* no output request in progress
NoRun ==
    [entry |-> "none", pc |-> "idle", meta |-> None, variations_msg |-> None,
     test_cases_msg |-> None, variations |-> <<>>, test_cases |-> <<>>,
     i |-> 0, j |-> 0, variation_scores |-> <<>>, scores |-> <<>>, out |-> None]

\* the attributes of a component on which none is set, and the empty record
\* of attributes `_last_attributes = {}`, read with .get
NewAttributes ==
    [base_prompt |-> Unset, provider |-> Unset, model |-> Unset, temperature |-> Unset,
     max_tokens |-> Unset, top_p |-> Unset, force_refresh |-> FALSE]

NewLastAttributes ==
    [base_prompt |-> Unset, provider |-> Unset, model |-> Unset, temperature |-> Unset,
     max_tokens |-> Unset, top_p |-> Unset]

\* a new component: no attribute set, nothing stored
NewComponent ==
    /\ attributes = NewAttributes
    /\ last_attributes = NewLastAttributes
    /\ cache = [meta_prompt |-> None, variations |-> None, test_cases |-> None,
                best_prompt |-> None]
    /\ run = NoRun
    /\ log = <<>>

InitFallback ==
    /\ rng \in RngStates
    /\ fbPinned = NoCall
    /\ fbLast = NoCall
    /\ IdleEval
    /\ IdleParse
    /\ IdleStore
    /\ NewComponent

FallbackCall(r, pin) ==
    LET f == fallback_evaluation(r, rng)
    IN  /\ rng' = f.rng
        /\ fbLast' = Call(r, f.out)
        /\ fbPinned' =
             IF pin THEN fbLast
             ELSE IF fbPinned.called /\ fbLast.request # fbPinned.request
                  THEN [fbPinned EXCEPT !.between = TRUE]
                  ELSE fbPinned
        /\ UNCHANGED <<evalVars, parseVars, pipeVars, parked, storeVars>>

NextFallback == \E r \in FallbackRequests, pin \in BOOLEAN : FallbackCall(r, pin)

SpecFallback == InitFallback /\ [][NextFallback]_vars

(***************************************************************************)
(* Provider replies are sequences of characters.  The replies of the model *)
(* are the concatenations of at most MaxParts of the Fragments.            *)
(***************************************************************************)
Chars(str) ==
    CASE str = "score"  -> <<"s", "c", "o", "r", "e">>
      [] str = "Rating" -> <<"R", "a", "t", "i", "n", "g">>
      [] str = "rating" -> <<"r", "a", "t", "i", "n", "g">>
      [] str = "evaluation" -> <<"e", "v", "a", "l", "u", "a", "t", "i", "o", "n">>
      [] str = "of"     -> <<"o", "f">>
      [] str = "is"     -> <<"i", "s">>
      [] str = "/10"    -> <<"/", "1", "0">>
      [] OTHER          -> <<str>>

Fragments ==
    { Chars("score"), Chars("Rating"), Chars("is"), <<":">>, <<" ">>,
      <<"7">>, <<"1">>, <<"0">>, <<".">>, Chars("/10"), <<"7">> \o Chars("/10") }

RECURSIVE TextsOf(_)
TextsOf(k) ==
    IF k = 0 THEN { <<>> }
    ELSE LET shorter == TextsOf(k - 1)
         IN  shorter \cup { t \o f : t \in shorter, f \in Fragments }

Texts == TextsOf(MaxParts)

IsDigit(c) == c \in {"0", "1", "2", "3", "4", "5", "6", "7", "8", "9"}
IsSpace(c) == c \in {" ", "\n", "\t", "\r"}
DigitVal(c) ==
    CASE c = "0" -> 0 [] c = "1" -> 1 [] c = "2" -> 2 [] c = "3" -> 3 [] c = "4" -> 4
      [] c = "5" -> 5 [] c = "6" -> 6 [] c = "7" -> 7 [] c = "8" -> 8 [] c = "9" -> 9

\* re.IGNORECASE, for the letters of the model's alphabet
Lower(c) == IF c = "R" THEN "r" ELSE c

\* the character at position i, "" past the end
At(t, i) == IF i >= 1 /\ i <= Len(t) THEN t[i] ELSE ""

\* the literal w at position i (ignoring case when ic)
StartsWith(t, i, w, ic) ==
    /\ i + Len(w) - 1 <= Len(t)
    /\ \A k \in 1..Len(w) :
           IF ic THEN Lower(t[i + k - 1]) = Lower(w[k]) ELSE t[i + k - 1] = w[k]

\* \d* and \s* are greedy: the position after the run that starts at i
RECURSIVE DigitsEnd(_, _)
DigitsEnd(t, i) == IF IsDigit(At(t, i)) THEN DigitsEnd(t, i + 1) ELSE i

RECURSIVE SkipSpace(_, _)
SkipSpace(t, i) == IF IsSpace(At(t, i)) THEN SkipSpace(t, i + 1) ELSE i

\* \d+(?:\.\d+)? at position i: the position after the match, 0 when none
NumberEnd(t, i) ==
    IF ~IsDigit(At(t, i)) THEN 0
    ELSE LET e == DigitsEnd(t, i)
         IN  IF At(t, e) = "." /\ IsDigit(At(t, e + 1)) THEN DigitsEnd(t, e + 1) ELSE e

NoMatch == [found |-> FALSE, from |-> 0, to |-> 0]
Group(i, j) == [found |-> TRUE, from |-> i, to |-> j]   \* group(1) = t[i .. j-1]

\* re.search: the match at the leftmost start position that has one
Search(MatchAt(_, _), t) ==
    LET starts == { i \in 1..Len(t) : MatchAt(t, i).found }
    IN  IF starts = {} THEN NoMatch
        ELSE MatchAt(t, CHOOSE i \in starts : \A k \in starts : i <= k)

\* float(str) of a match of \d+(?:\.\d+)?
RECURSIVE DigitsValue(_, _)
DigitsValue(ds, acc) ==
    IF ds = <<>> THEN acc
    ELSE DigitsValue(Tail(ds), 10 * acc + DigitVal(Head(ds)))

float(t) ==
    LET dot  == IF \E i \in 1..Len(t) : t[i] = "."
                THEN CHOOSE i \in 1..Len(t) : t[i] = "." ELSE Len(t) + 1
        int  == SubSeq(t, 1, dot - 1)
        frac == SubSeq(t, dot + 1, Len(t))
    IN  MkDec(DigitsValue(int \o frac, 0), Len(frac))

\* the mutant of Clamp: the number is returned as parsed
ClampNone(score) == score

\* max(0, min(10, score))
Clamp(score) ==
    LET upper == IF DecLeq(score, Int2Dec(10)) THEN score ELSE Int2Dec(10)
    IN  IF DecLeq(Int2Dec(0), upper) THEN upper ELSE Int2Dec(0)

(***************************************************************************)
(* PromptEvaluationSystem._extract_score                                   *)
(***************************************************************************)
\* r'score\s*(?:of|is|:)?\s*(\d+(?:\.\d+)?)', re.IGNORECASE
Pattern1At(t, i) ==
    IF ~StartsWith(t, i, Chars("score"), TRUE) THEN NoMatch
    ELSE LET j == SkipSpace(t, i + 5)
             c == IF StartsWith(t, j, Chars("of"), TRUE) THEN j + 2
                  ELSE IF StartsWith(t, j, Chars("is"), TRUE) THEN j + 2
                  ELSE IF At(t, j) = ":" THEN j + 1
                  ELSE j
             k == SkipSpace(t, c)
         IN  IF NumberEnd(t, k) = 0 THEN NoMatch ELSE Group(k, NumberEnd(t, k))

\* r'(\d+(?:\.\d+)?)\s*/\s*10'
\* the number may end before its fraction when only that lets "/10" follow
Pattern2Tail(t, e) ==
    LET j == SkipSpace(t, e)
    IN  /\ At(t, j) = "/"
        /\ StartsWith(t, SkipSpace(t, j + 1), <<"1", "0">>, FALSE)

Pattern2At(t, i) ==
    IF ~IsDigit(At(t, i)) THEN NoMatch
    ELSE IF Pattern2Tail(t, NumberEnd(t, i)) THEN Group(i, NumberEnd(t, i))
    ELSE IF Pattern2Tail(t, DigitsEnd(t, i)) THEN Group(i, DigitsEnd(t, i))
    ELSE NoMatch

\* r'(?:score|rating|evaluation)[^.]*?(\d+(?:\.\d+)?)', re.IGNORECASE
RECURSIVE LazyToDigit(_, _)
LazyToDigit(t, i) ==
    IF i > Len(t) THEN 0
    ELSE IF IsDigit(t[i]) THEN i
    ELSE IF t[i] = "." THEN 0
    ELSE LazyToDigit(t, i + 1)

Pattern3At(t, i) ==
    LET after == IF StartsWith(t, i, Chars("score"), TRUE) THEN i + 5
                 ELSE IF StartsWith(t, i, Chars("rating"), TRUE) THEN i + 6
                 ELSE IF StartsWith(t, i, Chars("evaluation"), TRUE) THEN i + 10
                 ELSE 0
        k == IF after = 0 THEN 0 ELSE LazyToDigit(t, after)
    IN  IF k = 0 THEN NoMatch ELSE Group(k, NumberEnd(t, k))

\* the match the three searches leave in score_match
\* the mutant of score_match: the match that starts first in the text wins
ScoreMatchByPosition(text) ==
    LET ms == { m \in { Search(Pattern1At, text), Search(Pattern2At, text),
                        Search(Pattern3At, text) } : m.found }
    IN  IF ms = {} THEN NoMatch
        ELSE CHOOSE m \in ms : \A o \in ms : m.from <= o.from

score_match(text) ==
    LET m1 == Search(Pattern1At, text)
        m2 == Search(Pattern2At, text)
    IN  IF m1.found THEN m1
        ELSE IF m2.found THEN m2
        ELSE Search(Pattern3At, text)

DefaultCrewScore == MkDec(70, 1)   \* return 7.0

extract_score(text) ==
    LET m == score_match(text)
    IN  IF m.found THEN Clamp(float(SubSeq(text, m.from, m.to - 1)))
        ELSE DefaultCrewScore

(***************************************************************************)
(* evaluate_response (the Scalar Evaluator)                                *)
(***************************************************************************)
\* str.strip()
RECURSIVE RStrip(_)
RStrip(t) == IF t # <<>> /\ IsSpace(t[Len(t)]) THEN RStrip(SubSeq(t, 1, Len(t) - 1)) ELSE t
strip(t) == LET i == SkipSpace(t, 1) IN RStrip(SubSeq(t, i, Len(t)))

\* the mutant of NumberAt: the pattern is r'(\d+)'
NumberAtIntegerOnly(t, i) ==
    IF ~IsDigit(At(t, i)) THEN NoMatch ELSE Group(i, DigitsEnd(t, i))

\* r'(\d+(\.\d+)?)'
NumberAt(t, i) == IF NumberEnd(t, i) = 0 THEN NoMatch ELSE Group(i, NumberEnd(t, i))

DefaultScalarScore == MkDec(50, 1)   \* return 5.0

SupportedProviders == {"openai", "anthropic"}
\* the provider names a request can carry ("google" has no branch)
Providers == {"openai", "anthropic", "google"}

\* A provider reply: the text of the first content block, or no text at all
\* (message.content of None, a content block that is not text).
TextReply(t) == [kind |-> "text", text |-> t]
NoText       == [kind |-> "none", text |-> <<>>]
ObjectReply  == [kind |-> "object", text |-> <<>>]

\* evaluate_response from the provider dispatch on: the score it returns, or
\* what it raises
evaluate_response(provider, reply) ==
    IF provider \notin SupportedProviders
    THEN RaisedWith("ValueError", UnsupportedProvider(provider))
    ELSE LET stripped == strip(IF reply.kind = "text" THEN reply.text ELSE <<>>)
             m == Search(NumberAt, stripped)
         IN  IF m.found
             THEN Returned(Clamp(float(SubSeq(stripped, m.from, m.to - 1))),
                           NoReasoning, <<provider, "", "scalar">>)
             ELSE Returned(DefaultScalarScore, NoReasoning, <<provider, "", "scalar">>)

(***************************************************************************)
(* The generators' parsers: generate_variations and generate_test_cases    *)
(* (ai_providers.py).  A reply is a sequence of characters, built from      *)
(* pieces: a letter, a space, a line break, a hyphen, three hyphens, a      *)
(* digit, a digit with its period.                                          *)
(***************************************************************************)
ContentPieces ==
    { <<"a">>, <<" ">>, <<"\n">>, <<"-">>, <<"-", "-", "-">>, <<"1">>, <<"1", ".">> }

RECURSIVE ContentsOf(_)
ContentsOf(k) ==
    IF k = 0 THEN { <<>> }
    ELSE LET shorter == ContentsOf(k - 1)
         IN  shorter \cup { t \o piece : t \in shorter, piece \in ContentPieces }

Contents == ContentsOf(MaxContentLen)

\* str.split(sep)
RECURSIVE split(_, _)
split(t, sep) ==
    LET hits == { i \in 1..(Len(t) - Len(sep) + 1) : SubSeq(t, i, i + Len(sep) - 1) = sep }
    IN  IF hits = {} THEN <<t>>
        ELSE LET i == CHOOSE h \in hits : \A g \in hits : h <= g
             IN  <<SubSeq(t, 1, i - 1)>> \o split(SubSeq(t, i + Len(sep), Len(t)), sep)

\* "\n".join(parts)
RECURSIVE join(_)
join(parts) ==
    IF parts = <<>> THEN <<>>
    ELSE IF Len(parts) = 1 THEN parts[1]
    ELSE parts[1] \o <<"\n">> \o join(Tail(parts))

\* the mutant of WholeIfEmpty: an empty list is returned as it is
WholeIfEmptyDropped(list, whole) == list

\* if not variations: variations = [content]
WholeIfEmpty(list, whole) == IF list = <<>> THEN <<whole>> ELSE list

\* the mutant of Flush: an empty group is appended as well
FlushAlways(list, current) == Append(list, join(current))

\* the pending group closes the list: if current: list.append("\n".join(current))
Flush(list, current) == IF current # <<>> THEN Append(list, join(current)) ELSE list

Separator == <<"-", "-", "-">>

\* the loop of generate_variations over the lines of the reply
RECURSIVE VariationsLoop(_, _, _)
VariationsLoop(lines, variations, current_variation) ==
    IF lines = <<>> THEN Flush(variations, current_variation)
    ELSE LET line == strip(Head(lines))
         IN  IF line = Separator
             THEN VariationsLoop(Tail(lines), Flush(variations, current_variation), <<>>)
             ELSE VariationsLoop(Tail(lines), variations, Append(current_variation, line))

\* the mutant of IsNumbered: the period is not asked for
IsNumberedDigitOnly(line) == Len(line) >= 1 /\ IsDigit(line[1])

\* line and line[0].isdigit() and line[1:].startswith('.')
IsNumbered(line) == Len(line) >= 2 /\ IsDigit(line[1]) /\ line[2] = "."

\* the loop of generate_test_cases over the lines of the reply
RECURSIVE TestCasesLoop(_, _, _)
TestCasesLoop(lines, test_cases, current_test) ==
    IF lines = <<>> THEN Flush(test_cases, current_test)
    ELSE LET line == strip(Head(lines))
         IN  IF IsNumbered(line)
             THEN TestCasesLoop(Tail(lines), Flush(test_cases, current_test), <<line>>)
             ELSE IF current_test # <<>>
             THEN TestCasesLoop(Tail(lines), test_cases, Append(current_test, line))
             ELSE TestCasesLoop(Tail(lines), test_cases, current_test)

\* [part.strip() for part in content.split("\n\n") if part.strip()]
Paragraphs(t) ==
    LET parts == split(t, <<"\n", "\n">>)
        stripped == [i \in 1..Len(parts) |-> strip(parts[i])]
    IN  SelectSeq(stripped, LAMBDA part : part # <<>>)

\* the text a generator reads from the reply: message.content or "", the
\* text of a text block, "" for any other block
ReplyContent(reply) == IF reply.kind = "text" THEN reply.text ELSE <<>>

ParsedList(fn, list) == [fn |-> fn, kind |-> "return", list |-> list, exc |-> "", msg |-> <<>>]
ParseRaised(fn, exc, msg) == [fn |-> fn, kind |-> "raise", list |-> <<>>, exc |-> exc, msg |-> msg]


\* the mutant of EmptyContent: no reply counts as empty
EmptyContentNever(reply) == FALSE

\* if not content or not content.strip()
EmptyContent(reply) == reply.kind # "text" \/ reply.text = <<>> \/ strip(reply.text) = <<>>

\* generate_meta_prompt from the provider dispatch on: the text is returned
\* as it is
generate_meta_prompt(provider, reply) ==
    IF provider \notin SupportedProviders
    THEN ParseRaised("meta_prompt", "ValueError", UnsupportedProvider(provider))
    ELSE IF EmptyContent(reply)
    THEN ParseRaised("meta_prompt", "ValueError", <<"API returned empty content">>)
    ELSE ParsedList("meta_prompt", <<reply.text>>)

\* create_meta_prompt without the request: the generator, then the check of
\* line 123
create_meta_prompt(provider, reply) ==
    LET out == generate_meta_prompt(provider, reply)
    IN  IF out.kind = "return" /\ EmptyContent(TextReply(out.list[1]))
        THEN ParseRaised("meta_prompt", "ValueError",
                         <<"Generated meta prompt is empty or invalid">>)
        ELSE out

\* generate_variations from the provider dispatch on
generate_variations(provider, reply) ==
    IF provider \notin SupportedProviders
    THEN ParseRaised("variations", "ValueError", UnsupportedProvider(provider))
    ELSE LET text == ReplyContent(reply)
             variations == VariationsLoop(split(text, <<"\n">>), <<>>, <<>>)
         IN  ParsedList("variations", WholeIfEmpty(variations, text))

\* generate_test_cases from the provider dispatch on
generate_test_cases(provider, reply) ==
    IF provider \notin SupportedProviders
    THEN ParseRaised("test_cases", "ValueError", UnsupportedProvider(provider))
    ELSE LET text == ReplyContent(reply)
             numbered == TestCasesLoop(split(text, <<"\n">>), <<>>, <<>>)
             test_cases == IF numbered = <<>> THEN Paragraphs(text) ELSE numbered
         IN  ParsedList("test_cases", WholeIfEmpty(test_cases, text))

GeneratorReplies == { TextReply(t) : t \in Contents } \cup { NoText }

(***************************************************************************)
(* PromptEvaluationSystem.evaluate, evaluate_with_crew,                    *)
(* evaluate_with_agents and the /evaluate-with-agents endpoint.            *)
(***************************************************************************)
\* the mutant of CatchesException: the handlers are `except ValueError`
CatchesValueErrorOnly(exc) == exc \in {"ValueError", "UnicodeEncodeError"}

\* `except Exception as e`: the classes raised here all derive from Exception
CatchesException(exc) ==
    exc \in {"Exception", "AttributeError", "TypeError", "ValueError",
             "UnicodeEncodeError"}

\* the mutant of tasks: the aggregator's task is listed first
TasksScoringFirst == <<"scoring_task", "primary_task", "perspective_task">>

\* Crew(tasks=[primary_task, perspective_task, scoring_task], process=Process.sequential)
tasks == <<"primary_task", "perspective_task", "scoring_task">>

\* the mutant of process: Process.hierarchical, a manager picks the next task
ProcessHierarchical == "hierarchical"

\* Crew(..., process=Process.sequential)
process == "sequential"

\* the tasks that may run next when `order` have run
NextTasks(order) ==
    IF process = "sequential" THEN { tasks[Len(order) + 1] }
    ELSE { tasks[i] : i \in { k \in 1..Len(tasks) : \A j \in 1..Len(order) : order[j] # tasks[k] } }

\* Task(..., context=[primary_task, perspective_task]) of scoring_task
context(task) ==
    IF task = "scoring_task" THEN <<"primary_task", "perspective_task">> ELSE <<>>

TaskNames == {"primary_task", "perspective_task", "scoring_task"}
NoOutput  == [kind |-> "unset", text |-> <<>>]

\* what a judge's task can write
JudgeOutputs(task) ==
    IF task = "primary_task"
    THEN { TextReply(Chars("score") \o <<":", "7">>), TextReply(<<"1">>) }
    ELSE { TextReply(<<"7">> \o Chars("/10")), TextReply(<<"0">>) }

\* what the aggregator's task can leave: a text, nothing, or a non-string
TaskOutputs(task) ==
    IF task = "scoring_task"
    THEN { TextReply(t) : t \in Texts } \cup { NoText, ObjectReply }
    ELSE JudgeOutputs(task)

\* the mutant of get_llm_config: the provider is taken as given
GetLlmConfigAsGiven(provider, model) == [api |-> provider, model |-> model]

\* PromptEvaluationSystem._get_llm_config: whose API key and which model the
\* agents are configured with
get_llm_config(provider, model) ==
    IF provider = "openai" THEN [api |-> "openai", model |-> model]
    ELSE IF provider = "anthropic" THEN [api |-> "anthropic", model |-> model]
    ELSE [api |-> "openai", model |-> "gpt-3.5-turbo"]

NoLlmConfig == [api |-> "none", model |-> ""]

\* what runs behind an endpoint: the crew with its tasks, the configuration
\* of its agents, and the provider whose API has been called ("none": no call)
NewCrew ==
    [order |-> <<>>, outputs |-> [t \in TaskNames |-> NoOutput],
     ctx |-> [t \in TaskNames |-> <<>>], failure |-> "none",
     llm |-> NoLlmConfig, called |-> "none"]

\* evaluate() from a point inside the outer try where self._fallback_evaluation()
\* is awaited (lines 307, 313): an exception it raises is caught by the outer
\* handler, which awaits it once more (line 327)
FallbackInsideTry(r, state) ==
    LET f1 == fallback_evaluation(r, state)
    IN  IF f1.out.kind = "raise" /\ CatchesException(f1.out.exc)
        THEN fallback_evaluation(r, f1.rng)
        ELSE f1

\* an exception raised inside the outer try of evaluate() (lines 280-323)
RaisedInsideTry(r, state, exc) ==
    IF CatchesException(exc) THEN fallback_evaluation(r, state)
    ELSE [out |-> Raised(exc), rng |-> state]

\* an exception raised by crew.kickoff() (lines 299-307)
RaisedByKickoff(r, state, exc) ==
    IF CatchesException(exc) THEN FallbackInsideTry(r, state)
    ELSE [out |-> Raised(exc), rng |-> state]

\* lines 309-323: parse the result of crew.kickoff()
ParseResult(r, state, shape, final_output) ==
    IF shape # "dict" THEN RaisedInsideTry(r, state, "AttributeError")
    ELSE IF final_output.kind = "none" \/ final_output = TextReply(<<>>)
         THEN FallbackInsideTry(r, state)
    ELSE IF final_output.kind # "text" THEN RaisedInsideTry(r, state, "TypeError")
    ELSE [out |-> Returned(extract_score(final_output.text),
                           Reasoning("crew", 0, <<>>, "", "", final_output.text),
                           <<r.provider, r.model, "crew">>),
          rng |-> state]

\* which step of the parse found no aggregator output ("none": it was found)
ParseFailure(shape, final_output) ==
    IF shape # "dict" THEN "shape"
    ELSE IF final_output.kind = "none" \/ final_output = TextReply(<<>>) THEN "missing"
    ELSE IF final_output.kind # "text" THEN "nonstring"
    ELSE "none"

ErrorScore == MkDec(70, 1)   \* "score": 7.0 of the two error defaults

\* evaluate_with_crew around `await evaluation_system.evaluate()`
evaluate_with_crew(r, out) ==
    IF out.kind = "raise" /\ CatchesException(out.exc)
    THEN Returned(ErrorScore, Reasoning("error", 0, <<>>, "", "", <<>>),
                  <<r.provider, r.model, "error">>)
    ELSE out

\* evaluate_with_agents around `await evaluate_with_crew(...)`
evaluate_with_agents(r, out) ==
    LET inner == evaluate_with_crew(r, out)
    IN  IF inner.kind = "raise" /\ CatchesException(inner.exc)
        THEN Returned(ErrorScore, Reasoning("error", 0, <<>>, "", "", <<>>),
                      <<r.provider, r.model, "error">>)
        ELSE inner

\* the status the endpoint answers with: 200 with the result, 500 from its
\* own handler, and 500 from the framework for what no handler caught
StatusOf(out) == IF out.kind = "return" THEN 200 ELSE 500

\* the rest of the request once evaluate() has ended with `ev`
Answer(r, ev) ==
    LET out == evaluate_with_agents(r, ev.out)
    IN  /\ result' = out
        /\ http' = StatusOf(out)
        /\ rng' = ev.rng
        /\ pc' = "done"

EvalCriteria == { <<>>, [name |-> <<Run("c", 1)>>, description |-> "d1"] }

EvalRequests ==
    [system_prompt : { <<>>, <<Run("a", 100)>>, <<Run("S", 1)>> },
     user_input : { <<>>, <<Run("a", 50)>> },
     criterion : EvalCriteria,
     provider : {"openai"}, model : {"gpt-4"}]
    \cup
    [system_prompt : { <<Run("a", 100)>> },
     user_input : { <<Run("a", 50)>> },
     criterion : EvalCriteria \ { <<>> },
     provider : Providers \ SupportedProviders, model : {"gpt-4"}]

\* `if not request.system_prompt` ... `if not request.criterion`
MissingField(r) ==
    r.system_prompt = <<>> \/ r.user_input = <<>> \/ DOMAIN r.criterion = {}

\* POST /evaluate-with-agents up to crew.kickoff(); `created` is whether
\* _create_agents, _create_tasks and Crew(...) went through
ServeEvaluateWithAgents(r, created) ==
    /\ req' = r
    /\ IF MissingField(r)
       THEN /\ pc' = "done"
            /\ http' = 400
            /\ crew' = [NewCrew EXCEPT !.failure = "rejected"]
            /\ UNCHANGED <<result, rng>>
       ELSE IF created
       THEN /\ pc' = "kickoff"
            /\ crew' = [NewCrew EXCEPT !.llm = get_llm_config(r.provider, r.model)]
            /\ UNCHANGED <<result, http, rng>>
       ELSE /\ crew' = [NewCrew EXCEPT !.failure = "create"]
            /\ Answer(r, RaisedInsideTry(r, rng, "Exception"))
    /\ UNCHANGED <<fbVars, parseVars, pipeVars, parked, storeVars>>

EvaluateWithAgentsEndpoint ==
    /\ pc = "idle"
    /\ \E r \in EvalRequests, created \in BOOLEAN : ServeEvaluateWithAgents(r, created)

\* crew.kickoff(), one task per step.  Process.sequential: the next task of
\* the list runs, one at a time, and is handed the outputs of the tasks of
\* its context (nothing for a task that has not run); ok is
\* whether its provider call went through.  After the last task kickoff()
\* returns (a mapping from agent role to output, or an object without .get)
\* and evaluate() parses the result.
RunTask(ok) ==
    /\ pc = "kickoff"
    /\ Len(crew.order) < Len(tasks)
    /\ LET last == Len(crew.order) + 1 = Len(tasks)
       IN  IF ~ok
           THEN /\ crew' = [crew EXCEPT !.failure = "task", !.called = crew.llm.api]
                /\ Answer(req, RaisedByKickoff(req, rng, "Exception"))
           ELSE \E task \in NextTasks(crew.order) : \E out \in TaskOutputs(task) :
                  LET ran == [crew EXCEPT
                                !.called = crew.llm.api,
                                !.order = Append(@, task),
                                !.outputs[task] = out,
                                !.ctx[task] = [i \in 1..Len(context(task)) |->
                                                  crew.outputs[context(task)[i]]]]
                  IN  IF ~last
                      THEN /\ crew' = ran
                           /\ UNCHANGED <<pc, result, http, rng>>
                      ELSE \E shape \in {"dict", "object"} :
                             LET final_output == ran.outputs["scoring_task"]
                             IN  /\ crew' = [ran EXCEPT
                                               !.failure = ParseFailure(shape, final_output),
                                               !.outputs["scoring_task"] = NoOutput]
                                 /\ Answer(req, ParseResult(req, rng, shape, final_output))
    /\ UNCHANGED <<req, fbVars, parseVars, pipeVars, parked, storeVars>>

\* the provider branch an operation of ai_providers.py takes: the client it
\* calls, none for a provider without a branch
ProviderCalled(provider) == IF provider \in SupportedProviders THEN provider ELSE "none"

ScalarReplies == { TextReply(t) : t \in Texts } \cup { NoText }

\* POST /evaluate-response: create_evaluation around evaluate_response
CreateEvaluation ==
    /\ pc = "idle"
    /\ \E provider \in Providers, reply \in ScalarReplies :
           /\ req' = [provider |-> provider, reply |-> reply]
           /\ result' = evaluate_response(provider, reply)
           /\ http' = StatusOf(evaluate_response(provider, reply))
           /\ crew' = [NewCrew EXCEPT !.failure = "scalar", !.called = ProviderCalled(provider)]
    /\ pc' = "done"
    /\ UNCHANGED <<rng, fbVars, parseVars, pipeVars, parked, storeVars>>

\* the replies the generators' endpoints are served with
EndpointReplies ==
    { NoText, TextReply(<<>>), TextReply(<<" ">>), TextReply(<<"\n">>), TextReply(<<"a">>),
      TextReply(<<"a", "\n", "-", "-", "-", "\n", "a">>),
      TextReply(<<"1", ".", "a", "\n", "1", ".">>) }

\* a generator's endpoint around its generator: 200 with what it returned,
\* 500 (from `except Exception`) with the message of what it raised
Generated(provider, reply, out) ==
    /\ req' = [provider |-> provider, reply |-> reply]
    /\ content' = ReplyContent(reply)
    /\ parsed' = out
    /\ http' = IF out.kind = "return" THEN 200 ELSE 500
    /\ crew' = [NewCrew EXCEPT !.failure = "generator", !.called = ProviderCalled(provider)]
    /\ pc' = "done"
    /\ UNCHANGED <<result, rng, fbVars, pipeVars, parked, storeVars>>

\* POST /meta-prompt served
CreateMetaPrompt ==
    /\ pc = "idle"
    /\ \E provider \in Providers, reply \in EndpointReplies :
           Generated(provider, reply, create_meta_prompt(provider, reply))

\* POST /generate-variations: create_variations around generate_variations
CreateVariations ==
    /\ pc = "idle"
    /\ \E provider \in Providers, reply \in EndpointReplies :
           Generated(provider, reply, generate_variations(provider, reply))

\* POST /generate-test-cases: create_test_cases around generate_test_cases
CreateTestCases ==
    /\ pc = "idle"
    /\ \E provider \in Providers, reply \in EndpointReplies :
           Generated(provider, reply, generate_test_cases(provider, reply))

\* the answer is sent; the next request is served
Respond ==
    /\ pc = "done"
    /\ pc' = "idle"
    /\ req' = [none |-> TRUE]
    /\ crew' = [none |-> TRUE]
    /\ result' = NoResult
    /\ http' = 0
    /\ content' = <<>>
    /\ parsed' = NotParsed
    /\ UNCHANGED <<rng, fbVars, pipeVars, parked, storeVars>>

InitEval ==
    /\ rng = 0
    /\ fbPinned = NoCall
    /\ fbLast = NoCall
    /\ IdleEval
    /\ IdleParse
    /\ IdleStore
    /\ NewComponent

NextEval ==
    \/ EvaluateWithAgentsEndpoint
    \/ \E ok \in BOOLEAN : RunTask(ok)
    \/ CreateEvaluation
    \/ CreateMetaPrompt
    \/ CreateVariations
    \/ CreateTestCases
    \/ Respond

SpecEval == InitEval /\ [][NextEval]_vars

(***************************************************************************)
(* SpecParse: the generators are called again and again, each time on a    *)
(* reply of the provider.                                                  *)
(***************************************************************************)
GenerateVariations ==
    /\ parsed = NotParsed
    /\ \E provider \in Providers, reply \in GeneratorReplies :
           /\ content' = IF provider \in SupportedProviders THEN ReplyContent(reply) ELSE <<>>
           /\ parsed' = generate_variations(provider, reply)
    /\ UNCHANGED <<rng, fbVars, evalVars, pipeVars, parked, storeVars>>

GenerateTestCases ==
    /\ parsed = NotParsed
    /\ \E provider \in Providers, reply \in GeneratorReplies :
           /\ content' = IF provider \in SupportedProviders THEN ReplyContent(reply) ELSE <<>>
           /\ parsed' = generate_test_cases(provider, reply)
    /\ UNCHANGED <<rng, fbVars, evalVars, pipeVars, parked, storeVars>>

\* the caller takes the list (or the exception) and the generator is idle again
GeneratorReturn ==
    /\ parsed # NotParsed
    /\ content' = <<>>
    /\ parsed' = NotParsed
    /\ UNCHANGED <<rng, fbVars, evalVars, pipeVars, parked, storeVars>>

InitParse ==
    /\ rng = 0
    /\ fbPinned = NoCall
    /\ fbLast = NoCall
    /\ IdleEval
    /\ IdleParse
    /\ IdleStore
    /\ NewComponent

NextParse ==
    \/ GenerateVariations
    \/ GenerateTestCases
    \/ GeneratorReturn

SpecParse == InitParse /\ [][NextParse]_vars

(***************************************************************************)
(* The optimization driver: PromptOptimizerComponent                       *)
(* (components/prompts/optimizer.py).  An attribute is a string, "unset"   *)
(* when the host never set it.  A text is a sequence of characters; the    *)
(* words the driver writes and searches for ("Error", "Variation ",        *)
(* "Test Case ", the section titles) are single elements of it.            *)
(***************************************************************************)
\* `not value` for an attribute
Falsy(value) == value \in {Unset, ""}

\* _get_llm_config: the provider attribute, "openai" when unset
get_llm_config_of(attrs) ==
    [provider |-> IF attrs.provider = Unset THEN "openai" ELSE attrs.provider,
     model |-> IF attrs.model = Unset THEN "gpt-4" ELSE attrs.model,
     temperature |-> IF attrs.temperature = Unset THEN "0.7" ELSE attrs.temperature,
     max_tokens |-> IF attrs.max_tokens = Unset THEN "2048" ELSE attrs.max_tokens,
     top_p |-> IF attrs.top_p = Unset THEN "1.0" ELSE attrs.top_p]

\* critical_attrs of _should_refresh
critical_attrs == {"base_prompt", "provider", "model", "temperature", "max_tokens", "top_p"}

\* the mutant of should_refresh: only the base prompt and the provider are
\* compared
should_refresh_prompt_and_provider(attrs, last) ==
    \/ attrs.force_refresh
    \/ attrs.base_prompt # last.base_prompt
    \/ attrs.provider # last.provider

\* _should_refresh: the refresh flag, or a critical attribute that differs
\* from the recorded one
should_refresh(attrs, last) ==
    \/ attrs.force_refresh
    \/ \E attr \in critical_attrs : attrs[attr] # last[attr]

\* _update_last_attributes
update_last_attributes(attrs) ==
    [base_prompt |-> attrs.base_prompt, provider |-> attrs.provider,
     model |-> attrs.model, temperature |-> attrs.temperature,
     max_tokens |-> attrs.max_tokens, top_p |-> attrs.top_p]

\* _clear_cache
ClearedCache ==
    [meta_prompt |-> None, variations |-> None, test_cases |-> None, best_prompt |-> None]

\* `"Error" in message.text`
HasError(text) == \E k \in 1..Len(text) : text[k] = "Error"

\* an API request: the endpoint and the JSON body
Request(endpoint, body) == [endpoint |-> endpoint, body |-> body]

\* a response: the status, the decoded JSON of a success, the text of a failure
Response(status, json, text) == [status |-> status, json |-> json, text |-> text]

\* the response of an endpoint that raised HTTPException(500, detail)
Failed(detail) == Response(500, <<>>, <<"{\"detail\":">>  \o detail \o <<"}">>)

\* `not data.get(key)` for a key that holds a text
MissingText(data, key) == key \notin DOMAIN data \/ data[key] = <<>>

\* `not data.get(key)` for a key that holds a dictionary with entries
MissingDict(data, key) == key \notin DOMAIN data

\* the decimal digits of a natural number: f"{i}"
RECURSIVE Decimal(_)
Decimal(k) ==
    LET last == <<SubSeq(<<"0", "1", "2", "3", "4", "5", "6", "7", "8", "9">>,
                         (k % 10) + 1, (k % 10) + 1)[1]>>
    IN  IF k < 10 THEN last ELSE Decimal(k \div 10) \o last

\* the response of a generator's endpoint: the list it returned, or the 500
\* of `except Exception`
GeneratorResponse(out, what) ==
    IF out.kind = "return" THEN Response(200, out.list, <<>>)
    ELSE Failed(<<"Failed to generate ", what, ": ">> \o out.msg)

\* POST /generate-ai-response: 400 for a missing field, raised inside `try`
\* and answered as 500 by `except Exception`; else the mock response
generate_ai_response(data) ==
    IF \/ MissingText(data, "systemPrompt")
       \/ MissingText(data, "userInput")
       \/ MissingDict(data, "llm_config")
    THEN Failed(<<"Failed to generate AI response: ", "400: Missing required fields">>)
    ELSE Response(200,
                  <<<<"This is a response to '">> \o data["userInput"]
                    \o <<"' using the system prompt guidelines.">>>>,
                  <<>>)

\* POST /evaluate-response: the score of evaluate_response, or the 500 of
\* `except Exception`
create_evaluation(data, reply) ==
    LET out == evaluate_response(data["llm_config"].provider, reply)
    IN  IF out.kind = "return" THEN Response(200, <<out.score>>, <<>>)
        ELSE Failed(<<"Failed to evaluate response: ">> \o out.msg)

\* the endpoint a request reaches, served with the reply of the provider
Serve(request, reply) ==
    LET data == request.body
    IN  CASE request.endpoint = "/meta-prompt" ->
               GeneratorResponse(create_meta_prompt(data["llm_config"].provider, reply),
                                 "meta prompt")
          [] request.endpoint = "/generate-variations" ->
               GeneratorResponse(generate_variations(data["llm_config"].provider, reply),
                                 "variations")
          [] request.endpoint = "/generate-test-cases" ->
               GeneratorResponse(generate_test_cases(data["llm_config"].provider, reply),
                                 "test cases")
          [] request.endpoint = "/generate-ai-response" -> generate_ai_response(data)
          [] request.endpoint = "/evaluate-response" -> create_evaluation(data, reply)

\* what client.post can do with a request: hand it to the endpoint and
\* return its response, answer 404 because no route of the router matches
\* the path, or raise
Transports == {"delivered", "unrouted", "raised"}

\* a call that raised: no response, the text of the exception
NoResponse == Response(0, <<>>, <<"connection failed">>)

\* _make_api_call
make_api_call(request, reply, transport) ==
    CASE transport = "delivered" -> Serve(request, reply)
      [] transport = "unrouted" -> Response(404, <<>>, <<"{\"detail\":\"Not Found\"}">>)
      [] transport = "raised" -> NoResponse

\* the entry of the log for a request: the request, and the status and the
\* decoded JSON of its response (status 0 when the call raised)
Logged(request, response) ==
    [endpoint |-> request.endpoint, body |-> request.body, status |-> response.status,
     json |-> response.json]

\* the outcome of a fetch: the Message and the requests that were issued
Fetched(msg, requests) == [msg |-> msg, requests |-> requests]

\* the Message of a fetch for the response to its request
FetchMessage(response, what, formatted) ==
    IF response.status = 0 THEN Message(<<"Error", ": ">> \o response.text)
    ELSE IF response.status = 200 THEN Message(formatted)
    ELSE Message(<<"Error", " generating ", what, ": ">> \o response.text)

\* _fetch_meta_prompt from the response on
MetaPromptFetched(request, response) ==
    Fetched(FetchMessage(response, "meta prompt",
                         IF response.json = <<>> THEN <<>> ELSE response.json[1]),
            <<Logged(request, response)>>)

\* the request of _fetch_meta_prompt
MetaPromptRequest(attrs) ==
    Request("/meta-prompt",
            [base_prompt |-> attrs.base_prompt, llm_config |-> get_llm_config_of(attrs)])

\* _fetch_meta_prompt
fetch_meta_prompt(attrs, reply, transport) ==
    IF Falsy(attrs.base_prompt)
    THEN Fetched(Message(<<"No base prompt provided.">>), <<>>)
    ELSE MetaPromptFetched(MetaPromptRequest(attrs),
                           make_api_call(MetaPromptRequest(attrs), reply, transport))

\* "Variation {i}:\n{variation}\n\n" for each element from index i on
RECURSIVE FormatItems(_, _, _)
FormatItems(label, items, i) ==
    IF i > Len(items) THEN <<>>
    ELSE <<label>> \o Decimal(i) \o <<":", "\n">> \o items[i] \o <<"\n", "\n">>
         \o FormatItems(label, items, i + 1)

\* formatted_variations of _fetch_variations
format_variations(variations) ==
    <<"\n", "\n", "===== VARIATIONS =====", "\n", "\n">>
    \o FormatItems("Variation ", variations, 1)

\* formatted_test_cases of _fetch_test_cases
format_test_cases(test_cases) ==
    <<"\n", "\n", "===== TEST CASES =====", "\n", "\n">>
    \o FormatItems("Test Case ", test_cases, 1)

\* `not meta_prompt or not meta_prompt.text`
NoMetaPrompt(meta_prompt) == meta_prompt = None \/ meta_prompt.text = <<>>

\* the request of _fetch_variations and of _fetch_test_cases
GeneratorRequest(endpoint, meta_prompt, attrs) ==
    Request(endpoint,
            [meta_prompt |-> meta_prompt.text, llm_config |-> get_llm_config_of(attrs)])

\* _fetch_variations from the response on
VariationsFetched(request, response) ==
    Fetched(FetchMessage(response, "variations", format_variations(response.json)),
            <<Logged(request, response)>>)

\* _fetch_variations
fetch_variations(meta_prompt, attrs, reply, transport) ==
    IF NoMetaPrompt(meta_prompt)
    THEN Fetched(Message(<<"No meta prompt available.">>), <<>>)
    ELSE VariationsFetched(
             GeneratorRequest("/generate-variations", meta_prompt, attrs),
             make_api_call(GeneratorRequest("/generate-variations", meta_prompt, attrs),
                           reply, transport))

\* _fetch_test_cases from the response on
TestCasesFetched(request, response) ==
    Fetched(FetchMessage(response, "test cases", format_test_cases(response.json)),
            <<Logged(request, response)>>)

\* _fetch_test_cases
fetch_test_cases(meta_prompt, attrs, reply, transport) ==
    IF NoMetaPrompt(meta_prompt)
    THEN Fetched(Message(<<"No meta prompt available.">>), <<>>)
    ELSE TestCasesFetched(
             GeneratorRequest("/generate-test-cases", meta_prompt, attrs),
             make_api_call(GeneratorRequest("/generate-test-cases", meta_prompt, attrs),
                           reply, transport))

\* part.split(":", 1)[1]
AfterColon(part) ==
    LET k == CHOOSE c \in 1..Len(part) :
                 part[c] = ":" /\ \A b \in 1..(c - 1) : part[b] # ":"
    IN  SubSeq(part, k + 1, Len(part))

\* the loop over the parts of a formatted text: the text of each part that
\* has a colon, from the colon to the first blank line
RECURSIVE PartsLoop(_, _)
PartsLoop(parts, items) ==
    IF parts = <<>> THEN items
    ELSE LET part == Head(parts)
         IN  IF \E c \in 1..Len(part) : part[c] = ":"
             THEN PartsLoop(Tail(parts),
                            Append(items, split(strip(AfterColon(part)), <<"\n", "\n">>)[1]))
             ELSE PartsLoop(Tail(parts), items)

\* the variations (test cases) _evaluate_prompts reads back from a
\* formatted text: text.split(label)[1:], then the loop
parse_formatted(text, label) == PartsLoop(Tail(split(text, <<label>>)), <<>>)

\* the sum of two decimal numbers
DecAdd(a, b) ==
    LET e == IF a.e >= b.e THEN a.e ELSE b.e
    IN  MkDec(a.n * Pow10(e - a.e) + b.n * Pow10(e - b.e), e)

\* sum(variation_scores)
RECURSIVE Sum(_)
Sum(values) == IF values = <<>> THEN Int2Dec(0) ELSE DecAdd(Head(values), Sum(Tail(values)))

\* an entry of `scores`: the index of the variation and its average, kept as
\* the sum of its scores and their number
Average(idx, values) == [idx |-> idx, sum |-> Sum(values), count |-> Len(values)]

\* is the average of a less than the average of b
AvgLt(a, b) ==
    a.sum.n * Pow10(b.sum.e) * b.count < b.sum.n * Pow10(a.sum.e) * a.count

\* the mutant of best_variation_idx: of equal averages the last one wins
best_variation_idx_last(scores) ==
    LET k == CHOOSE k \in 1..Len(scores) :
                 /\ \A m \in 1..Len(scores) : ~AvgLt(scores[k], scores[m])
                 /\ \A m \in (k + 1)..Len(scores) : AvgLt(scores[m], scores[k])
    IN  scores[k].idx

\* max(scores, key=scores.get): the first entry no later entry exceeds and
\* no earlier entry reaches
best_variation_idx(scores) ==
    LET k == CHOOSE k \in 1..Len(scores) :
                 /\ \A m \in 1..Len(scores) : ~AvgLt(scores[k], scores[m])
                 /\ \A m \in 1..(k - 1) : AvgLt(scores[m], scores[k])
    IN  scores[k].idx

\* f"{score:.2f}": the average rounded to hundredths, halves to even
Format2f(avg) ==
    LET num == avg.sum.n * 100
        den == Pow10(avg.sum.e) * avg.count
        q == num \div den
        r == num % den
        hundredths == IF 2 * r > den \/ (2 * r = den /\ q % 2 = 1) THEN q + 1 ELSE q
        cents == hundredths % 100
    IN  Decimal(hundredths \div 100) \o <<".">>
        \o (IF cents < 10 THEN <<"0">> ELSE <<>>) \o Decimal(cents)

\* f"Variation {idx+1}: Score {score:.2f}\n" for each entry of scores
RECURSIVE ScoreLines(_)
ScoreLines(scores) ==
    IF scores = <<>> THEN <<>>
    ELSE <<"Variation ">> \o Decimal(Head(scores).idx + 1) \o <<":", " Score ">>
         \o Format2f(Head(scores)) \o <<"\n">> \o ScoreLines(Tail(scores))

\* the end of _evaluate_prompts: the report on the best variation, or the
\* Message that none was scored; idx counts from 0 as enumerate does
Report(variations, scores) ==
    IF scores # <<>>
    THEN Message(<<"===== EVALUATION RESULTS =====", "\n", "\n">> \o ScoreLines(scores)
                 \o <<"\n", "===== BEST PROMPT =====", "\n", "\n">>
                 \o variations[best_variation_idx(scores) + 1])
    ELSE Message(<<"Could not determine the best prompt due to evaluation errors.">>)

\* the body of the loop of _evaluate_prompts for one variation and one test
\* case: the requests issued, the score collected (if any), and whether a
\* call raised
PairOutcome(requests, collected, raised) ==
    [requests |-> requests, collected |-> collected, raised |-> raised]

\* the iteration from the response to the scoring request on
PairScored(logged, eval_logged, eval_response) ==
    IF eval_response.status = 0 THEN PairOutcome(<<logged, eval_logged>>, <<>>, TRUE)
    ELSE IF eval_response.status = 200
    THEN PairOutcome(<<logged, eval_logged>>, <<eval_response.json[1]>>, FALSE)
    ELSE PairOutcome(<<logged, eval_logged>>, <<>>, FALSE)

\* the scoring request of the iteration
EvaluationRequest(ai_response, attrs) ==
    Request("/evaluate-response",
            [response |-> ai_response,
             criterion |-> "Quality and relevance of the response",
             llm_config |-> get_llm_config_of(attrs)])

\* the scoring call of the iteration
PairEvaluated(logged, eval_request, eval_response) ==
    PairScored(logged, Logged(eval_request, eval_response), eval_response)

\* the mutant of PairGenerated: a response that is not a success ends the loop
PairGeneratedAborting(logged, response, attrs, eval_response) ==
    PairOutcome(<<logged>>, <<>>, TRUE)

\* the iteration from the response to the response-generation request on;
\* eval_response is the response to the scoring request, which is issued
\* only after a 200
PairGenerated(logged, response, attrs, eval_response) ==
    IF response.status = 0 THEN PairOutcome(<<logged>>, <<>>, TRUE)
    ELSE IF response.status # 200 THEN PairOutcome(<<logged>>, <<>>, FALSE)
    ELSE PairEvaluated(logged, EvaluationRequest(response.json[1], attrs), eval_response)

\* the response-generation request of the iteration
GenerationRequest(variation, test_case, attrs) ==
    Request("/generate-ai-response",
            [prompt |-> variation, input |-> test_case,
             llm_config |-> get_llm_config_of(attrs)])

\* the response-generation call of the iteration
PairRequested(request, response, attrs, eval_response) ==
    PairGenerated(Logged(request, response), response, attrs, eval_response)

\* the scoring call for the response to the response-generation request
EvaluationCall(response, attrs, reply, eval_transport) ==
    make_api_call(EvaluationRequest(response.json[1], attrs), reply, eval_transport)

\* the two calls of the iteration
PairCalled(request, response, attrs, reply, eval_transport) ==
    PairRequested(request, response, attrs,
                  EvaluationCall(response, attrs, reply, eval_transport))

evaluate_pair(variation, test_case, attrs, reply, transport, eval_transport) ==
    PairCalled(GenerationRequest(variation, test_case, attrs),
               make_api_call(GenerationRequest(variation, test_case, attrs),
                             reply, transport),
               attrs, reply, eval_transport)

(***************************************************************************)
(* The driver's outputs as processes.  An output request runs from its     *)
(* entry (build_prompt or one of the four getters) through the stages it   *)
(* needs; each action is the code up to and including one API call of the  *)
(* stage (the pair of calls of one loop iteration in the last stage).      *)
(***************************************************************************)
Entries == {"build_prompt", "get_meta_prompt", "get_variations", "get_test_cases",
            "get_best_prompt"}

\* the attributes the host sets
BasePrompts == {Unset, "", "p"}
ProviderAttributes == {Unset, "google"}
\* the attributes with one of model, temperature, max_tokens and top_p set;
\* the numbers are written as the host passes them, and float() and int() in
\* _get_llm_config leave them as they are
ModelSettings ==
    LET set == [NewAttributes EXCEPT !.base_prompt = "p", !.provider = "google"]
    IN  { [set EXCEPT !.model = "gpt-3.5-turbo"], [set EXCEPT !.temperature = "0.2"],
          [set EXCEPT !.max_tokens = "1024"], [set EXCEPT !.top_p = "0.5"] }

Attributes ==
    { [NewAttributes EXCEPT !.base_prompt = b, !.provider = p, !.force_refresh = f] :
      b \in BasePrompts, p \in ProviderAttributes, f \in BOOLEAN }
    \cup ModelSettings

\* the replies of the provider behind the endpoints
PipelineReplies ==
    { NoText, TextReply(<<"m">>), TextReply(<<"Error">>),
      TextReply(<<"a", "\n", "-", "-", "-", "\n", "b">>),
      TextReply(<<"1", ".", "x", "\n", "2", ".", "y">>),
      TextReply(<<"a", "\n", "\n", "b">>) }

\* the refresh at the head of a getter: `if self._should_refresh():
\* _clear_cache(); _update_last_attributes()`
Refreshed(c, last) ==
    IF should_refresh(attributes, last)
    THEN [cache |-> ClearedCache, last |-> update_last_attributes(attributes)]
    ELSE [cache |-> c, last |-> last]

\* the refresh at the head of build_prompt: the record of the attributes is
\* updated in any case
RefreshedByBuild(c, last) ==
    [cache |-> IF should_refresh(attributes, last) THEN ClearedCache ELSE c,
     last |-> update_last_attributes(attributes)]

\* the output request returns `msg`
Returns(r, msg) == [r EXCEPT !.pc = "return", !.out = msg]

\* build_prompt after _run_full_optimization
BuildReturns(r, c) ==
    Returns(r, IF c.best_prompt # None THEN c.best_prompt
               ELSE Message(<<"Optimization not completed yet.">>))

\* get_test_cases inside get_best_prompt, up to its first call
BestTestCases(r, c) ==
    IF c.test_cases # None THEN [r EXCEPT !.test_cases_msg = c.test_cases, !.pc = "evaluate"]
    ELSE [r EXCEPT !.pc = "expand"]

\* get_variations inside get_best_prompt, up to its first call
BestVariations(r, c) ==
    IF c.variations # None THEN BestTestCases([r EXCEPT !.variations_msg = c.variations], c)
    ELSE [r EXCEPT !.pc = "expand"]

\* an entry up to its first call
Entered(entry, c) ==
    LET r == [NoRun EXCEPT !.entry = entry]
    IN  CASE entry = "build_prompt" ->
               IF /\ c.meta_prompt # None /\ c.variations # None
                  /\ c.test_cases # None /\ c.best_prompt # None
               THEN BuildReturns(r, c) ELSE [r EXCEPT !.pc = "expand"]
          [] entry = "get_meta_prompt" ->
               IF c.meta_prompt # None THEN Returns(r, c.meta_prompt)
               ELSE [r EXCEPT !.pc = "expand"]
          [] entry = "get_variations" ->
               IF c.variations # None THEN Returns(r, c.variations)
               ELSE [r EXCEPT !.pc = "expand"]
          [] entry = "get_test_cases" ->
               IF c.test_cases # None THEN Returns(r, c.test_cases)
               ELSE [r EXCEPT !.pc = "expand"]
          [] entry = "get_best_prompt" ->
               IF c.best_prompt # None THEN Returns(r, c.best_prompt)
               ELSE BestVariations(r, c)

\* the host sets attributes of the component; the record of the last
\* request is dropped
SetAttributes ==
    /\ run.pc = "idle"
    /\ \E attrs \in Attributes :
           /\ attrs # attributes
           /\ attributes' = attrs
    /\ run' = NoRun
    /\ log' = <<>>
    /\ UNCHANGED <<last_attributes, cache>>
    /\ UNCHANGED <<rng, fbVars, evalVars, parseVars, parked, storeVars>>

\* the component after the head of an entry: the refresh, then the code up
\* to the first call
Enter(entry) ==
    LET fresh == IF entry = "build_prompt"
                 THEN RefreshedByBuild(cache, last_attributes)
                 ELSE Refreshed(cache, last_attributes)
    IN  [cache |-> fresh.cache, last |-> fresh.last, run |-> Entered(entry, fresh.cache)]

\* build_prompt is called
BuildPrompt ==
    /\ run.pc = "idle"
    /\ cache' = Enter("build_prompt").cache
    /\ last_attributes' = Enter("build_prompt").last
    /\ run' = Enter("build_prompt").run
    /\ log' = <<>>
    /\ UNCHANGED attributes
    /\ UNCHANGED <<rng, fbVars, evalVars, parseVars, parked, storeVars>>

\* get_meta_prompt is called
GetMetaPrompt ==
    /\ run.pc = "idle"
    /\ cache' = Enter("get_meta_prompt").cache
    /\ last_attributes' = Enter("get_meta_prompt").last
    /\ run' = Enter("get_meta_prompt").run
    /\ log' = <<>>
    /\ UNCHANGED attributes
    /\ UNCHANGED <<rng, fbVars, evalVars, parseVars, parked, storeVars>>

\* get_variations is called
GetVariations ==
    /\ run.pc = "idle"
    /\ cache' = Enter("get_variations").cache
    /\ last_attributes' = Enter("get_variations").last
    /\ run' = Enter("get_variations").run
    /\ log' = <<>>
    /\ UNCHANGED attributes
    /\ UNCHANGED <<rng, fbVars, evalVars, parseVars, parked, storeVars>>

\* get_test_cases is called
GetTestCases ==
    /\ run.pc = "idle"
    /\ cache' = Enter("get_test_cases").cache
    /\ last_attributes' = Enter("get_test_cases").last
    /\ run' = Enter("get_test_cases").run
    /\ log' = <<>>
    /\ UNCHANGED attributes
    /\ UNCHANGED <<rng, fbVars, evalVars, parseVars, parked, storeVars>>

\* get_best_prompt is called
GetBestPrompt ==
    /\ run.pc = "idle"
    /\ cache' = Enter("get_best_prompt").cache
    /\ last_attributes' = Enter("get_best_prompt").last
    /\ run' = Enter("get_best_prompt").run
    /\ log' = <<>>
    /\ UNCHANGED attributes
    /\ UNCHANGED <<rng, fbVars, evalVars, parseVars, parked, storeVars>>

\* the stage after the expand stage, for a getter
AfterExpand(r) ==
    CASE r.entry = "get_variations" -> "variations"
      [] r.entry = "get_test_cases" -> "test_cases"
      [] r.entry = "get_best_prompt" ->
           IF r.variations_msg = None THEN "variations" ELSE "test_cases"

\* the mutant of StoredOr: a stored error-marked Message is fetched again
StoredOrRetry(stored, fetched) ==
    IF stored = None \/ HasError(stored.text) THEN fetched ELSE Fetched(stored, <<>>)

\* the stored Message of a stage, or what its fetch returns
StoredOr(stored, fetched) == IF stored = None THEN fetched ELSE Fetched(stored, <<>>)

\* lines 105-108 of _run_full_optimization for the request r with the log
\* l: the outcome f of the fetch is stored and tested for the marker
ExpandOfBuildIn(r, l, f) ==
    /\ cache' = [cache EXCEPT !.meta_prompt = f.msg]
    /\ log' = l \o f.requests
    /\ run' = IF HasError(f.msg.text)
              THEN BuildReturns([r EXCEPT !.meta = f.msg],
                                [cache EXCEPT !.meta_prompt = f.msg])
              ELSE [r EXCEPT !.meta = f.msg, !.pc = "variations"]
    /\ UNCHANGED last_attributes

\* lines 104-108 of _run_full_optimization with f the outcome of the fetch
ExpandOfBuild(f) == ExpandOfBuildIn(run, log, f)

\* get_meta_prompt for a getter, after its refresh, with f the outcome of
\* the fetch
ExpandOfGetter(fresh, f) ==
    /\ cache' = fresh.cache
    /\ last_attributes' = fresh.last
    /\ log' = log \o f.requests
    /\ run' = IF run.entry = "get_meta_prompt" THEN Returns(run, f.msg)
              ELSE [run EXCEPT !.meta = f.msg, !.pc = AfterExpand(run)]

\* the expand stage: lines 104-108 of _run_full_optimization, get_meta_prompt
\* for a getter
Expand ==
    /\ run.pc = "expand"
    /\ \E reply \in PipelineReplies, transport \in Transports :
         IF run.entry = "build_prompt"
         THEN ExpandOfBuild(StoredOr(cache.meta_prompt,
                                     fetch_meta_prompt(attributes, reply, transport)))
         ELSE ExpandOfGetter(Refreshed(cache, last_attributes),
                             StoredOr(Refreshed(cache, last_attributes).cache.meta_prompt,
                                      fetch_meta_prompt(attributes, reply, transport)))
    /\ UNCHANGED attributes
    /\ UNCHANGED <<rng, fbVars, evalVars, parseVars, parked, storeVars>>

\* lines 111-115 of _run_full_optimization with f the outcome of the fetch
VariationsOfBuild(f) ==
    /\ cache' = [cache EXCEPT !.variations = f.msg]
    /\ log' = log \o f.requests
    /\ run' = IF HasError(f.msg.text)
              THEN BuildReturns([run EXCEPT !.variations_msg = f.msg],
                                [cache EXCEPT !.variations = f.msg])
              ELSE [run EXCEPT !.variations_msg = f.msg, !.pc = "test_cases"]
    /\ UNCHANGED last_attributes

\* get_variations from _fetch_variations on, with f its outcome; in
\* get_best_prompt the head of get_test_cases follows
VariationsOfGetter(fresh, f) ==
    /\ log' = log \o f.requests
    /\ IF run.entry = "get_variations"
       THEN /\ run' = Returns(run, f.msg)
            /\ UNCHANGED <<cache, last_attributes>>
       ELSE /\ cache' = fresh.cache
            /\ last_attributes' = fresh.last
            /\ run' = BestTestCases([run EXCEPT !.variations_msg = f.msg], fresh.cache)

\* the variations stage: lines 111-115 of _run_full_optimization,
\* _fetch_variations for a getter
Variations ==
    /\ run.pc = "variations"
    /\ \E reply \in PipelineReplies, transport \in Transports :
         IF run.entry = "build_prompt"
         THEN VariationsOfBuild(
                  StoredOr(cache.variations,
                           fetch_variations(cache.meta_prompt, attributes, reply, transport)))
         ELSE VariationsOfGetter(Refreshed(cache, last_attributes),
                                 fetch_variations(run.meta, attributes, reply, transport))
    /\ UNCHANGED attributes
    /\ UNCHANGED <<rng, fbVars, evalVars, parseVars, parked, storeVars>>

\* lines 118-122 of _run_full_optimization with f the outcome of the fetch
TestCasesOfBuild(f) ==
    /\ cache' = [cache EXCEPT !.test_cases = f.msg]
    /\ log' = log \o f.requests
    /\ run' = IF HasError(f.msg.text)
              THEN BuildReturns([run EXCEPT !.test_cases_msg = f.msg],
                                [cache EXCEPT !.test_cases = f.msg])
              ELSE [run EXCEPT !.test_cases_msg = f.msg, !.pc = "evaluate"]

\* get_test_cases from _fetch_test_cases on, with f its outcome
TestCasesOfGetter(f) ==
    /\ log' = log \o f.requests
    /\ run' = IF run.entry = "get_test_cases" THEN Returns(run, f.msg)
              ELSE [run EXCEPT !.test_cases_msg = f.msg, !.pc = "evaluate"]
    /\ UNCHANGED cache

\* the test-case stage: lines 118-122 of _run_full_optimization,
\* _fetch_test_cases for a getter
TestCases ==
    /\ run.pc = "test_cases"
    /\ \E reply \in PipelineReplies, transport \in Transports :
         IF run.entry = "build_prompt"
         THEN TestCasesOfBuild(
                  StoredOr(cache.test_cases,
                           fetch_test_cases(cache.meta_prompt, attributes, reply, transport)))
         ELSE TestCasesOfGetter(fetch_test_cases(run.meta, attributes, reply, transport))
    /\ UNCHANGED <<attributes, last_attributes>>
    /\ UNCHANGED <<rng, fbVars, evalVars, parseVars, parked, storeVars>>

\* _evaluate_prompts returns `msg`: build_prompt stores it, get_best_prompt
\* returns it
Evaluated(r, msg) ==
    /\ cache' = IF r.entry = "build_prompt" THEN [cache EXCEPT !.best_prompt = msg] ELSE cache
    /\ run' = Returns(r, msg)

\* _evaluate_prompts up to its loop
Evaluate ==
    /\ run.pc = "evaluate"
    /\ IF run.entry = "build_prompt" /\ cache.best_prompt # None
       THEN /\ run' = BuildReturns(run, cache)
            /\ UNCHANGED cache
       ELSE LET variations == parse_formatted(run.variations_msg.text, "Variation ")
                test_cases == parse_formatted(run.test_cases_msg.text, "Test Case ")
            IN  IF HasError(run.variations_msg.text) \/ HasError(run.test_cases_msg.text)
                THEN Evaluated(run, Message(<<"Could not evaluate prompts due to errors in generation.">>))
                ELSE IF variations = <<>> \/ test_cases = <<>>
                THEN Evaluated(run, Message(<<"No variations or test cases to evaluate.">>))
                ELSE /\ run' = [run EXCEPT !.variations = variations,
                                           !.test_cases = test_cases,
                                           !.i = 1, !.j = 1, !.pc = "pair"]
                     /\ UNCHANGED cache
    /\ UNCHANGED <<attributes, last_attributes, log>>
    /\ UNCHANGED <<rng, fbVars, evalVars, parseVars, parked, storeVars>>

\* the mutant of LoopEnded: the loop is left after the first variation
LoopEndedAfterFirstVariation(r) == r.i > 1

\* has the loop over the variations ended
LoopEnded(r) == r.i > Len(r.variations)

\* the run after the iteration for test case j of variation i: at the last
\* test case the variation's average is recorded if it collected a score
NextPair(r, collected) ==
    LET variation_scores == r.variation_scores \o collected
    IN  IF r.j < Len(r.test_cases)
        THEN [r EXCEPT !.j = r.j + 1, !.variation_scores = variation_scores]
        ELSE [r EXCEPT !.i = r.i + 1, !.j = 1, !.variation_scores = <<>>,
                       !.scores = IF variation_scores # <<>>
                                  THEN Append(r.scores, Average(r.i - 1, variation_scores))
                                  ELSE r.scores]

\* the iteration with outcome p: `except Exception` when a call raised, the
\* next iteration otherwise
PairDone(p) ==
    /\ log' = log \o p.requests
    /\ IF p.raised
       THEN Evaluated(run, Message(<<"Error", " during evaluation: ">> \o NoResponse.text))
       ELSE /\ run' = NextPair(run, p.collected)
            /\ UNCHANGED cache

\* one iteration of the loop of _evaluate_prompts
Pair ==
    /\ run.pc = "pair"
    /\ ~LoopEnded(run)
    /\ \E reply \in PipelineReplies, transport \in Transports, eval_transport \in Transports :
         PairDone(evaluate_pair(run.variations[run.i], run.test_cases[run.j], attributes,
                                reply, transport, eval_transport))
    /\ UNCHANGED <<attributes, last_attributes>>
    /\ UNCHANGED <<rng, fbVars, evalVars, parseVars, parked, storeVars>>

\* the end of _evaluate_prompts: the best variation is selected
Rank ==
    /\ run.pc = "pair"
    /\ LoopEnded(run)
    /\ Evaluated(run, Report(run.variations, run.scores))
    /\ UNCHANGED <<attributes, last_attributes, log>>
    /\ UNCHANGED <<rng, fbVars, evalVars, parseVars, parked, storeVars>>

\* the Message is handed to the host; the request and its log stay on
\* record until the next request or a change of the attributes
Return ==
    /\ run.pc = "return"
    /\ run' = [run EXCEPT !.pc = "idle"]
    /\ UNCHANGED <<attributes, last_attributes, cache, log>>
    /\ UNCHANGED <<rng, fbVars, evalVars, parseVars, parked, storeVars>>

InitPipeline ==
    /\ rng = 0
    /\ fbPinned = NoCall
    /\ fbLast = NoCall
    /\ IdleEval
    /\ IdleParse
    /\ IdleStore
    /\ NewComponent

NextPipeline ==
    \/ SetAttributes
    \/ BuildPrompt
    \/ GetMetaPrompt
    \/ GetVariations
    \/ GetTestCases
    \/ GetBestPrompt
    \/ Expand
    \/ Variations
    \/ TestCases
    \/ Evaluate
    \/ Pair
    \/ Rank
    \/ Return

SpecPipeline == InitPipeline /\ [][NextPipeline]_vars

\* ---------------------------------------------------------------------
\* The ranking of _evaluate_prompts as a function of the responses it
\* receives.  build_prompt and get_best_prompt hand _evaluate_prompts the two
\* formatted Messages; the responses to its requests are inputs, drawn from
\* the statuses and scores a server at the URL can answer with.

\* the lists of variations and of test cases behind the formatted Messages
RankVariations == {<<<<"a">>, <<"b">>, <<"c">>>>}
RankTestCases == {<<<<"t">>>>, <<<<"t">>, <<"u">>>>}

\* the scores a scoring response carries
RankScores == {MkDec(6, 0), MkDec(7, 0), MkDec(85, 1), MkDec(10, 0)}

\* the responses to a response-generation request and to a scoring request
GenerationResponses == {Response(200, <<<<"r">>>>, <<>>), Failed(<<"generation">>)}
EvaluationResponses ==
    {Response(200, <<score>>, <<>>) : score \in RankScores} \cup {Failed(<<"evaluation">>)}

\* get_best_prompt has obtained the two formatted Messages and calls
\* _evaluate_prompts
InitRank ==
    /\ rng = 0
    /\ fbPinned = NoCall
    /\ fbLast = NoCall
    /\ IdleEval
    /\ IdleParse
    /\ IdleStore
    /\ attributes = [NewAttributes EXCEPT !.base_prompt = "p", !.provider = "google"]
    /\ last_attributes = NewLastAttributes
    /\ cache = ClearedCache
    /\ log = <<>>
    /\ \E variations \in RankVariations, test_cases \in RankTestCases :
         run = [NoRun EXCEPT !.entry = "get_best_prompt", !.pc = "evaluate",
                             !.variations_msg = Message(format_variations(variations)),
                             !.test_cases_msg = Message(format_test_cases(test_cases))]

\* one iteration of the loop of _evaluate_prompts with the two responses given
RankPair ==
    /\ run.pc = "pair"
    /\ ~LoopEnded(run)
    /\ \E response \in GenerationResponses, eval_response \in EvaluationResponses :
         PairDone(PairRequested(GenerationRequest(run.variations[run.i],
                                                  run.test_cases[run.j], attributes),
                                response, attributes, eval_response))
    /\ UNCHANGED <<attributes, last_attributes>>
    /\ UNCHANGED <<rng, fbVars, evalVars, parseVars, parked, storeVars>>

NextRank ==
    \/ Evaluate
    \/ RankPair
    \/ Rank
    \/ Return

SpecRank == InitRank /\ [][NextRank]_vars

\* ---------------------------------------------------------------------
\* Output requests that interleave.  When _make_api_call goes through
\* httpx.AsyncClient, `await client.post(...)` suspends the request, and the
\* host may set attributes and issue other output requests before the
\* response arrives.  The suspension modelled is the one of build_prompt in
\* its call of _fetch_meta_prompt (line 105): the request is posted under the
\* attributes of that moment, and the result is stored when the request
\* resumes.

\* the request with its log and the outcome f of the fetch under way
Parked(r, l, f) == [run |-> r, log |-> l, f |-> f]

\* build_prompt is suspended in its call of _fetch_meta_prompt
SuspendExpand ==
    /\ parked = NotParked
    /\ run.pc = "expand"
    /\ run.entry = "build_prompt"
    /\ cache.meta_prompt = None
    /\ \E reply \in PipelineReplies, transport \in Transports :
         parked' = Parked(run, log, fetch_meta_prompt(attributes, reply, transport))
    /\ run' = NoRun
    /\ log' = <<>>
    /\ UNCHANGED <<attributes, last_attributes, cache>>
    /\ UNCHANGED <<rng, fbVars, evalVars, parseVars, storeVars>>

\* the response has arrived and no other request is running: the suspended
\* build_prompt goes on from line 105
ResumeExpand ==
    /\ parked # NotParked
    /\ run.pc = "idle"
    /\ ExpandOfBuildIn(parked.run, parked.log, parked.f)
    /\ parked' = NotParked
    /\ UNCHANGED attributes
    /\ UNCHANGED <<rng, fbVars, evalVars, parseVars, storeVars>>

\* the attribute settings and the responses of the interleaved requests: the
\* settings of a new component, a base prompt, and a provider in addition;
\* every call reaches its endpoint
InterleaveAttributes ==
    { NewAttributes,
      [NewAttributes EXCEPT !.base_prompt = "p"],
      [NewAttributes EXCEPT !.base_prompt = "p", !.provider = "google"] }

Delivered(requests) == \A k \in 1..Len(requests) : requests[k].status \in {200, 500}

InterleaveInputs ==
    /\ attributes \in InterleaveAttributes
    /\ Delivered(log)
    /\ parked # NotParked => Delivered(parked.f.requests)

InitInterleave == InitPipeline

NextInterleave ==
    \/ SetAttributes /\ InterleaveInputs'
    \/ BuildPrompt /\ InterleaveInputs'
    \/ GetMetaPrompt /\ InterleaveInputs'
    \/ GetVariations /\ InterleaveInputs'
    \/ GetTestCases /\ InterleaveInputs'
    \/ GetBestPrompt /\ InterleaveInputs'
    \/ Expand /\ InterleaveInputs'
    \/ Variations /\ InterleaveInputs'
    \/ TestCases /\ InterleaveInputs'
    \/ Evaluate /\ InterleaveInputs'
    \/ Pair /\ InterleaveInputs'
    \/ Rank /\ InterleaveInputs'
    \/ Return /\ InterleaveInputs'
    \/ SuspendExpand /\ InterleaveInputs'
    \/ ResumeExpand /\ InterleaveInputs'

SpecInterleave == InitInterleave /\ [][NextInterleave]_vars

\* ---------------------------------------------------------------------
\* The in-memory store.  Its methods are coroutines called from the
\* endpoints, which run as tasks of one event loop: a task runs until it
\* awaits something that suspends, and then another task may run.  A call of
\* a method is scheduled (StoreCreate, StoreUpdate, StoreDelete) and later
\* run (StoreRun); the statements of a body are run one after the other up
\* to a statement that awaits.

\* a record is created with the content "a" and updated to the content "b"

\* the mutant of create_awaits: the coroutine is suspended between reading
\* the counter and incrementing it
create_awaits_after_read == {"read"}

\* the statements of create_<kind> after which the coroutine awaits: none
create_awaits == {}

\* one statement of a method's body on the store `s` with history `a`
StoreExec(s, a, c) ==
    CASE c.pc = "read" ->
           \* id = self.current_ids[kind]
           [storage |-> s, assigned |-> a, call |-> [c EXCEPT !.local = s.current_ids[c.kind],
                                                              !.pc = "incr"]]
      [] c.pc = "incr" ->
           \* self.current_ids[kind] += 1
           [storage |-> [s EXCEPT !.current_ids[c.kind] = s.current_ids[c.kind] + 1],
            assigned |-> a, call |-> [c EXCEPT !.pc = "store"]]
      [] c.pc = "store" ->
           \* the record is built, which raises on invalid data, and stored
           IF c.valid
           THEN [storage |-> [s EXCEPT !.records[c.kind] =
                                  [i \in DOMAIN s.records[c.kind] \cup {c.local} |->
                                      IF i = c.local THEN c.content ELSE s.records[c.kind][i]]],
                 assigned |-> [a EXCEPT ![c.kind] = Append(a[c.kind], c.local)],
                 call |-> [c EXCEPT !.pc = "done"]]
           ELSE [storage |-> s, assigned |-> a, call |-> [c EXCEPT !.pc = "done"]]
      [] c.pc = "update" ->
           \* the record is replaced by one with the same id; ValueError when
           \* there is none
           IF c.id \in DOMAIN s.records[c.kind]
           THEN [storage |-> [s EXCEPT !.records[c.kind][c.id] = c.content],
                 assigned |-> a, call |-> [c EXCEPT !.pc = "done"]]
           ELSE [storage |-> s, assigned |-> a, call |-> [c EXCEPT !.pc = "done"]]
      [] c.pc = "delete" ->
           \* if id in self.<records>: del self.<records>[id]
           [storage |-> [s EXCEPT !.records[c.kind] =
                             [i \in DOMAIN s.records[c.kind] \ {c.id} |-> s.records[c.kind][i]]],
            assigned |-> a, call |-> [c EXCEPT !.pc = "done"]]

\* the statements after which a call of `op` awaits
StoreAwaits(op) == IF op = "create" THEN create_awaits ELSE {}

\* the call runs until it awaits or returns
RECURSIVE StoreRunCall(_, _, _)
StoreRunCall(s, a, c) ==
    LET n == StoreExec(s, a, c)
    IN  IF n.call.pc = "done" \/ c.pc \in StoreAwaits(c.op) THEN n
        ELSE StoreRunCall(n.storage, n.assigned, n.call)

\* a task calls create_<kind>
StoreCreate(t) ==
    /\ calls[t] = NoStoreCall
    /\ \E kind \in Kinds, valid \in BOOLEAN :
         /\ storage.current_ids[kind] <= MaxId
         /\ calls' = [calls EXCEPT ![t] = [NoStoreCall EXCEPT !.op = "create", !.kind = kind,
                                                              !.content = "a",
                                                              !.valid = valid, !.pc = "read"]]
    /\ UNCHANGED <<storage, assigned, parked>>
    /\ UNCHANGED <<rng, fbVars, evalVars, parseVars, pipeVars>>

\* a task calls update_variation
StoreUpdate(t) ==
    /\ calls[t] = NoStoreCall
    /\ \E id \in 1..MaxId :
         calls' = [calls EXCEPT ![t] = [NoStoreCall EXCEPT !.op = "update", !.kind = "variation",
                                                            !.id = id, !.content = "b",
                                                            !.pc = "update"]]
    /\ UNCHANGED <<storage, assigned, parked>>
    /\ UNCHANGED <<rng, fbVars, evalVars, parseVars, pipeVars>>

\* a task calls delete_variation
StoreDelete(t) ==
    /\ calls[t] = NoStoreCall
    /\ \E id \in 1..MaxId :
         calls' = [calls EXCEPT ![t] = [NoStoreCall EXCEPT !.op = "delete", !.kind = "variation",
                                                            !.id = id, !.pc = "delete"]]
    /\ UNCHANGED <<storage, assigned, parked>>
    /\ UNCHANGED <<rng, fbVars, evalVars, parseVars, pipeVars>>

\* the event loop runs the call of a task until it awaits or returns
StoreRun(t) ==
    /\ calls[t] # NoStoreCall
    /\ storage' = StoreRunCall(storage, assigned, calls[t]).storage
    /\ assigned' = StoreRunCall(storage, assigned, calls[t]).assigned
    /\ calls' = [calls EXCEPT ![t] =
                    IF StoreRunCall(storage, assigned, calls[t]).call.pc = "done"
                    THEN NoStoreCall ELSE StoreRunCall(storage, assigned, calls[t]).call]
    /\ UNCHANGED parked
    /\ UNCHANGED <<rng, fbVars, evalVars, parseVars, pipeVars>>

InitStorage ==
    /\ rng = 0
    /\ fbPinned = NoCall
    /\ fbLast = NoCall
    /\ IdleEval
    /\ IdleParse
    /\ IdleStore
    /\ NewComponent

NextStorage ==
    \E t \in StoreTasks :
        \/ StoreCreate(t)
        \/ StoreUpdate(t)
        \/ StoreDelete(t)
        \/ StoreRun(t)

SpecStorage == InitStorage /\ [][NextStorage]_vars


(***************************************************************************)
(* Claims about the evaluators (under SpecEval).                           *)
(***************************************************************************)
\* the request served is a /evaluate-with-agents request that passed the
\* field checks
AgentsRequestServed == pc = "done" /\ crew.failure \notin {"scalar", "generator", "rejected"}

\* the crew path ended without an aggregator output
CrewFailures == {"create", "task", "shape", "missing", "nonstring"}

\* C1: every score returned by evaluate_response and by evaluate_with_agents
\* (crew path, fallback path, error default) satisfies 0 <= score <= 10.
C1_ScoreInRange ==
    (pc = "done" /\ result.kind = "return")
        => /\ DecLeq(Int2Dec(0), result.score)
           /\ DecLeq(result.score, Int2Dec(10))

\* C1 witness: the aggregator's text carried a number above 10 and the crew
\* path returned 10.
C1_Witness ==
    /\ AgentsRequestServed
    /\ result.kind = "return"
    /\ result.agent[3] = "crew"
    /\ LET m == score_match(result.reasoning.text)
       IN  /\ m.found
           /\ DecLt(Int2Dec(10), float(SubSeq(result.reasoning.text, m.from, m.to - 1)))
    /\ result.score = Int2Dec(10)

\* C2: evaluate_with_agents never raises: whatever fails (creation, a task of
\* the crew, the parse of the result, a missing aggregator output) it returns
\* a result with a score, a reasoning and a source label, and the endpoint
\* answers 200 (or 400 for a missing field), never 500.
C2_NeverRaises ==
    /\ (pc = "done" /\ crew.failure = "rejected") => http = 400 /\ MissingField(req)
    /\ AgentsRequestServed
           => /\ http = 200
              /\ result.kind = "return"
              /\ result.score # NoScore
              /\ result.reasoning # NoReasoning
              /\ result.agent # NoAgent

\* C2 witness: the aggregator left no output and the fallback scorer raised
\* as well; the request was still answered 200 with a result.
C2_Witness ==
    /\ AgentsRequestServed
    /\ crew.failure = "missing"
    /\ fallback_evaluation(req, rng).out.kind = "raise"
    /\ http = 200
    /\ result.kind = "return"

\* C3 (as claimed): whenever the crew path does not produce an aggregator
\* output, the result returned is the one _fallback_evaluation computes, with
\* a label ending in "-fallback", never the fixed 7.0 labelled "-error".
C3_FailureGivesFallbackResult ==
    (AgentsRequestServed /\ crew.failure \in CrewFailures)
        => /\ result.kind = "return"
           /\ result.agent[3] = "fallback"
           /\ result = fallback_evaluation(req, rng).out

\* C8: the tasks run in the order primary judge, perspective judge,
\* aggregator, one at a time; the aggregator runs only after both judges have
\* finished and is handed the outputs of both, in that order, as its context.
ExpectedOrder == <<"primary_task", "perspective_task", "scoring_task">>

C8_StagesInOrder ==
    (pc \in {"kickoff", "done"} /\ crew.failure \notin {"scalar", "generator", "rejected"})
        => /\ Len(crew.order) <= 3
           /\ \A i \in 1..Len(crew.order) : crew.order[i] = ExpectedOrder[i]
           /\ (\E i \in 1..Len(crew.order) : crew.order[i] = "scoring_task")
                  => /\ crew.outputs["primary_task"] \in JudgeOutputs("primary_task")
                     /\ crew.outputs["perspective_task"] \in JudgeOutputs("perspective_task")
                     /\ crew.ctx["scoring_task"] = <<crew.outputs["primary_task"],
                                                     crew.outputs["perspective_task"]>>

\* C8 witness: all three tasks ran and the aggregator's text was scored.
C8_Witness ==
    /\ AgentsRequestServed
    /\ crew.order = ExpectedOrder
    /\ crew.failure = "none"
    /\ result.agent[3] = "crew"

\* a reply without content: null, empty, or whitespace only
Blank(reply) == reply.kind = "none" \/ (reply.kind = "text" /\ \A i \in 1..Len(reply.text) : reply.text[i] \in {" ", "\n"})

\* an operation of ai_providers.py was served a blank reply by a provider it
\* has a branch for
BlankServed(failure) ==
    /\ pc = "done"
    /\ crew.failure = failure
    /\ req.provider \in {"openai", "anthropic"}
    /\ Blank(req.reply)

UnknownProviderServed(failures) ==
    /\ pc = "done"
    /\ crew.failure \in failures
    /\ req.provider \notin {"openai", "anthropic"}

\* expand, variations, test cases and scalar evaluation refuse an unknown
\* provider with an error that names it, without a provider call
FourOperationsRefuse ==
    /\ UnknownProviderServed({"generator"})
           => /\ parsed.kind = "raise"
              /\ parsed.msg = <<"Unsupported provider: ", req.provider>>
              /\ crew.called = "none"
              /\ http = 500
    /\ UnknownProviderServed({"scalar"})
           => /\ result.kind = "raise"
              /\ result.msg = <<"Unsupported provider: ", req.provider>>
              /\ crew.called = "none"
              /\ http = 500

Digit(c) == c \in {"0", "1", "2", "3", "4", "5", "6", "7", "8", "9"}
HasDigit(t) == \E i \in 1..Len(t) : Digit(t[i])
FirstDigit(t) == CHOOSE i \in 1..Len(t) : Digit(t[i]) /\ \A k \in 1..(i - 1) : ~Digit(t[k])
RunEnd(t, i) ==
    CHOOSE j \in i..Len(t) : /\ \A k \in i..j : Digit(t[k])
                             /\ (j = Len(t) \/ ~Digit(t[j + 1]))
RECURSIVE NatOf(_, _, _)
NatOf(t, i, j) == IF j < i THEN 0 ELSE 10 * NatOf(t, i, j - 1) + DigitVal(t[j])
FirstNumber(t) ==
    LET i == FirstDigit(t)
        j == RunEnd(t, i)
    IN  IF j + 2 <= Len(t) /\ t[j + 1] = "." /\ Digit(t[j + 2])
        THEN LET k == RunEnd(t, j + 2)
             IN  MkDec(NatOf(t, i, j) * Pow10(k - j - 1) + NatOf(t, j + 2, k), k - j - 1)
        ELSE MkDec(NatOf(t, i, j), 0)
AtMostTen(d) == IF DecLt(Int2Dec(10), d) THEN Int2Dec(10) ELSE d

\* the scalar evaluator was served a reply by a provider it has a branch for
ScalarServed ==
    pc = "done" /\ crew.failure = "scalar" /\ req.provider \in {"openai", "anthropic"}

Captured(text, m) == AtMostTen(FirstNumber(SubSeq(text, m.from, m.to - 1)))

\* the crew path returned the aggregator's text with a score
CrewScored == AgentsRequestServed /\ result.kind = "return" /\ result.agent[3] = "crew"

\* C16: the three patterns are applied in fixed priority, not by position:
\* a "score [of|is|:] N" match is used even when an "N/10" stands earlier in
\* the text, "N/10" only when the first pattern has no match, keyword-then-
\* number only when both have none; the number is clamped to [0,10]; when no
\* pattern matches the score is exactly 7.0.
C16_PatternPriority ==
    CrewScored
        => LET text == result.reasoning.text
               m1 == Search(Pattern1At, text)
               m2 == Search(Pattern2At, text)
               m3 == Search(Pattern3At, text)
           IN  result.score = IF m1.found THEN Captured(text, m1)
                              ELSE IF m2.found THEN Captured(text, m2)
                              ELSE IF m3.found THEN Captured(text, m3)
                              ELSE MkDec(70, 1)

\* C16 witness: an "N/10" stands before a "score N" with another number, and
\* the score returned is the one after "score".
C16_Witness ==
    /\ CrewScored
    /\ LET text == result.reasoning.text
           m1 == Search(Pattern1At, text)
           m2 == Search(Pattern2At, text)
       IN  /\ m1.found /\ m2.found
           /\ m2.from < m1.from
           /\ Captured(text, m1) # Captured(text, m2)
           /\ result.score = Captured(text, m1)

(***************************************************************************)
(* Claims about the generators' parsers (under SpecParse).                 *)
(***************************************************************************)
\* C9: generate_variations and generate_test_cases never return an empty
\* list: for every reply text (empty, whitespace only, only blank lines, only
\* "---" lines) the list returned has at least one element.
C9_NeverEmpty == parsed.kind = "return" => Len(parsed.list) >= 1

\* C9 witness: both loops and the split on blank lines found nothing in a
\* non-empty reply (only separators, only blank lines) and the list returned
\* is the reply alone.
C9_Witness ==
    /\ parsed.kind = "return"
    /\ content # <<>>
    /\ \/ parsed.fn = "variations" /\ VariationsLoop(split(content, <<"\n">>), <<>>, <<>>) = <<>>
       \/ parsed.fn = "test_cases" /\ Paragraphs(content) = <<>>
    /\ parsed.list = <<content>>

\* no line of the text is a separator line
NoSeparatorLine(t) ==
    LET lines == split(t, <<"\n">>)
    IN  \A i \in 1..Len(lines) : strip(lines[i]) # Separator

\* C10 (as claimed): when the reply to generate_variations has no separator
\* line, the list returned has exactly one element, equal to the reply
\* character for character, leading and trailing whitespace included.
C10_NoSeparatorGivesWholeReply ==
    (parsed.fn = "variations" /\ parsed.kind = "return" /\ NoSeparatorLine(content))
        => parsed.list = <<content>>

\* the blocks of a reply: its lines grouped between the lines that are exactly
\* three hyphens, each group joined again; a group without a line (before a
\* leading, after a trailing, between doubled separators) is no block
ThreeHyphens == <<"-", "-", "-">>
WithBlock(blocks, block) == IF block = <<>> THEN blocks ELSE Append(blocks, join(block))

RECURSIVE BlocksLoop(_, _, _)
BlocksLoop(lines, blocks, block) ==
    IF lines = <<>> THEN WithBlock(blocks, block)
    ELSE IF Head(lines) = ThreeHyphens
    THEN BlocksLoop(Tail(lines), WithBlock(blocks, block), <<>>)
    ELSE BlocksLoop(Tail(lines), blocks, Append(block, Head(lines)))

BlocksOf(t) == BlocksLoop(split(t, <<"\n">>), <<>>, <<>>)

StripLines(t) ==
    LET lines == split(t, <<"\n">>)
    IN  join([i \in 1..Len(lines) |-> strip(lines[i])])

BeginsNumbered(line) ==
    Len(line) >= 2 /\ line[1] \in {"0", "1", "2", "3", "4", "5", "6", "7", "8", "9"} /\ line[2] = "."
NumberedLines(lines) == { i \in 1..Len(lines) : BeginsNumbered(lines[i]) }

\* the groups of a text: one per numbered line, from that line up to the line
\* before the next numbered line (or the last line), joined again
GroupsOf(t) ==
    LET lines == split(t, <<"\n">>)
        starts == NumberedLines(lines)
        Start(k) == CHOOSE i \in starts : Cardinality({ j \in starts : j < i }) = k - 1
        End(k) == IF k = Cardinality(starts) THEN Len(lines) ELSE Start(k + 1) - 1
    IN  [k \in 1..Cardinality(starts) |-> join(SubSeq(lines, Start(k), End(k)))]

\* C12 (as claimed): when the reply to generate_test_cases has a line that
\* begins with a digit immediately followed by a period, there is one entry
\* per such line, each made of that line and every following line up to the
\* next such line, in reply order.
C12_TestCaseGrouping ==
    (parsed.fn = "test_cases" /\ parsed.kind = "return" /\ GroupsOf(content) # <<>>)
        => parsed.list = GroupsOf(content)

\* C12 (amended): the same, on the lines of the reply stripped of their
\* leading and trailing whitespace: one entry per stripped line that begins
\* with a digit and a period, each made of that stripped line and the
\* stripped lines that follow it up to the next such line; the lines before
\* the first such line are in no entry.
C12_TestCaseGroupingStripped ==
    (parsed.fn = "test_cases" /\ parsed.kind = "return" /\ GroupsOf(StripLines(content)) # <<>>)
        => parsed.list = GroupsOf(StripLines(content))

\* C12 witness: a reply with two numbered lines, the second one indented,
\* came back as two entries.
C12_Witness ==
    /\ parsed.fn = "test_cases"
    /\ parsed.kind = "return"
    /\ Len(GroupsOf(content)) = 1
    /\ Len(GroupsOf(StripLines(content))) = 2
    /\ Len(parsed.list) = 2

(***************************************************************************)
(* Claims about the fallback scorer (under SpecFallback).                  *)
(***************************************************************************)
BothReturned ==
    /\ fbPinned.called /\ fbLast.called
    /\ fbPinned.out.kind = "return" /\ fbLast.out.kind = "return"

SameHashKey(r1, r2) ==
    /\ Take(r1.system_prompt, SystemPromptPrefix) = Take(r2.system_prompt, SystemPromptPrefix)
    /\ Take(r1.user_input, UserInputPrefix) = Take(r2.user_input, UserInputPrefix)
    /\ criterion_name(r1.criterion) = criterion_name(r2.criterion)

\* C4: two invocations of _fallback_evaluation with identical system prompt,
\* user input and criterion return the same score and the same reasoning,
\* whatever other invocations ran before or between them.
C4_FallbackDeterministic ==
    (BothReturned /\ fbPinned.request = fbLast.request)
        => /\ fbPinned.out.score = fbLast.out.score
           /\ fbPinned.out.reasoning = fbLast.out.reasoning

\* C4 witness: the same request evaluated twice, with an evaluation of another
\* request between the two.
C4_Witness ==
    /\ BothReturned
    /\ fbPinned.request = fbLast.request
    /\ fbPinned.between

\* C5 (as claimed): two requests that agree on the first 100 characters of the
\* system prompt, the first 50 of the user input and the criterion name get
\* the same fallback score.
C5_ScoreFunctionOfPrefixes ==
    (BothReturned /\ SameHashKey(fbPinned.request, fbLast.request))
        => fbPinned.out.score = fbLast.out.score

\* C5 (amended): two requests that agree on those three values and whose system
\* prompts have the same length get the same fallback score.
C5_ScoreFunctionOfPrefixesAndLength ==
    ( /\ BothReturned
      /\ SameHashKey(fbPinned.request, fbLast.request)
      /\ StrLen(fbPinned.request.system_prompt) = StrLen(fbLast.request.system_prompt) )
        => fbPinned.out.score = fbLast.out.score

\* C5 witness: two different requests with the same key and the same prompt
\* length have been scored.
C5_Witness ==
    /\ BothReturned
    /\ fbPinned.request # fbLast.request
    /\ fbPinned.request.system_prompt # fbLast.request.system_prompt
    /\ SameHashKey(fbPinned.request, fbLast.request)
    /\ StrLen(fbPinned.request.system_prompt) = StrLen(fbLast.request.system_prompt)

FallbackScoreOk(score) ==
    /\ DecLeq(Int2Dec(5), score)
    /\ DecLeq(score, Int2Dec(10))
    /\ IsTenths(score)

\* C6: every fallback score lies in [5.0, 10.0] and is a multiple of 0.1: the
\* score returned, and the score of the same prompt under every pair of draws.
C6_FallbackScoreRange ==
    (fbLast.called /\ fbLast.out.kind = "return")
        => /\ FallbackScoreOk(fbLast.out.score)
           /\ \A r1 \in Draws, r2 \in Draws :
                  FallbackScoreOk(final_score(fbLast.request.system_prompt, r1, r2))

\* C6 witness: a prompt longer than 500 characters was scored, and with the
\* largest draws its sum of base score and bonus exceeds 10.
C6_Witness ==
    /\ fbLast.called /\ fbLast.out.kind = "return"
    /\ StrLen(fbLast.request.system_prompt) > LengthBonusSpan
    /\ \E r1 \in Draws, r2 \in Draws :
           /\ base_score(r1) + 2 * length_bonus(fbLast.request.system_prompt) * r2
                  > 10 * ScoreDen
           /\ final_score(fbLast.request.system_prompt, r1, r2) = Int2Dec(10)

SameSeedInputs(r1, r2) ==
    /\ Take(r1.system_prompt, SystemPromptPrefix) = Take(r2.system_prompt, SystemPromptPrefix)
    /\ r1.user_input = r2.user_input
    /\ r1.criterion = r2.criterion

\* C7: for two system prompts that share their first 100 characters, with the
\* same user input and criterion, the longer prompt's fallback score is at
\* least the shorter one's, and two prompts of 500 characters or more score
\* the same.
C7_LongerPromptScoresHigher ==
    (BothReturned /\ SameSeedInputs(fbPinned.request, fbLast.request))
        => LET lp == StrLen(fbPinned.request.system_prompt)
               ll == StrLen(fbLast.request.system_prompt)
           IN  /\ lp <= ll => DecLeq(fbPinned.out.score, fbLast.out.score)
               /\ ll <= lp => DecLeq(fbLast.out.score, fbPinned.out.score)
               /\ (lp >= LengthBonusSpan /\ ll >= LengthBonusSpan)
                      => fbPinned.out.score = fbLast.out.score

\* C7 witness: a longer prompt got a strictly higher score than a shorter one
\* with the same first 100 characters.
C7_Witness ==
    /\ BothReturned
    /\ SameSeedInputs(fbPinned.request, fbLast.request)
    /\ StrLen(fbPinned.request.system_prompt) < StrLen(fbLast.request.system_prompt)
    /\ DecLt(fbPinned.out.score, fbLast.out.score)

(***************************************************************************)
(* Claims about the optimization driver (under SpecPipeline).              *)
(***************************************************************************)
\* the requests of the run to one of the endpoints, in the order issued
RECURSIVE RequestsTo(_, _)
RequestsTo(endpoints, requests) ==
    IF requests = <<>> THEN <<>>
    ELSE IF Head(requests).endpoint \in endpoints
    THEN <<Head(requests)>> \o RequestsTo(endpoints, Tail(requests))
    ELSE RequestsTo(endpoints, Tail(requests))

Elements(list) == { list[k] : k \in 1..Len(list) }

GeneratorEndpoints == {"/generate-variations", "/generate-test-cases"}
EvaluationEndpoints == {"/generate-ai-response", "/evaluate-response"}

\* the two Messages with which the selection of the best variation ends
Selected(msg) ==
    /\ msg # None
    /\ msg.text # <<>>
    /\ msg.text[1] \in {"===== EVALUATION RESULTS =====",
                        "Could not determine the best prompt due to evaluation errors."}

\* C17: within one run the stages form a chain: a variations or test-case
\* request is issued only when the expand stage has handed over its Message
\* and carries the text of it; a response-generation or scoring request is
\* issued only when the variations and the test cases have been handed over
\* and is about a variation and a test case read from them; the selection of
\* the best variation in a run that entered the loop comes after one
\* response-generation request for every pair, with the loop at its end.
C17_StageOrder ==
    /\ \A q \in Elements(RequestsTo(GeneratorEndpoints, log)) :
           /\ run.meta # None
           /\ q.body.meta_prompt # <<>>
           /\ run.entry # "get_best_prompt" => q.body.meta_prompt = run.meta.text
    /\ \A q \in Elements(RequestsTo({"/generate-ai-response"}, log)) :
           /\ run.variations_msg # None
           /\ run.test_cases_msg # None
           /\ q.body.prompt \in
                  Elements(parse_formatted(run.variations_msg.text, "Variation "))
           /\ q.body.input \in
                  Elements(parse_formatted(run.test_cases_msg.text, "Test Case "))
    /\ \A q \in Elements(RequestsTo({"/evaluate-response"}, log)) :
           RequestsTo({"/generate-ai-response"}, log) # <<>>
    /\ (run.pc = "return" /\ run.variations # <<>> /\ Selected(run.out))
         => /\ run.i = Len(run.variations) + 1
            /\ Len(RequestsTo({"/generate-ai-response"}, log))
                 = Len(run.variations) * Len(run.test_cases)

\* C17 witness: a run of build_prompt went through the four stages, with two
\* variations and two test cases, and ended with the selection.
C17_Witness ==
    /\ run.pc = "return"
    /\ run.entry = "build_prompt"
    /\ Selected(run.out)
    /\ Len(run.variations) = 2
    /\ Len(run.test_cases) = 2
    /\ Len(RequestsTo({"/meta-prompt"}, log)) = 1
    /\ Len(RequestsTo({"/generate-variations"}, log)) = 1
    /\ Len(RequestsTo({"/generate-test-cases"}, log)) = 1
    /\ Len(RequestsTo({"/generate-ai-response"}, log)) = 4

\* the expand stage of the run handed over a text with the marker "Error",
\* or an empty text
ExpandFailed ==
    /\ run.meta # None
    /\ HasError(run.meta.text) \/ run.meta.text = <<>>

\* C18: when the expand stage yields a text that contains "Error" or is
\* empty, the run issues no variations, test-case, response-generation or
\* scoring request, and build_prompt returns a Message.
C18_ExpandErrorAborts ==
    ExpandFailed =>
        /\ RequestsTo(GeneratorEndpoints \cup EvaluationEndpoints, log) = <<>>
        /\ (run.entry = "build_prompt" /\ run.pc # "expand")
             => run.pc \in {"return", "idle"} /\ run.out # None /\ run.out.text # <<>>

\* the same for the runs of build_prompt alone, and for an empty text handed
\* to the two fetches
BuildPromptAborts ==
    /\ run.entry = "build_prompt" => C18_ExpandErrorAborts
    /\ \A reply \in PipelineReplies, transport \in Transports :
           /\ fetch_variations(Message(<<>>), attributes, reply, transport).requests = <<>>
           /\ fetch_test_cases(Message(<<>>), attributes, reply, transport).requests = <<>>

\* the run has ended with a best-prompt result: get_best_prompt returned, or
\* build_prompt returned the stored best prompt
EndsWithBestPrompt ==
    /\ run.pc = "return"
    /\ \/ run.entry = "get_best_prompt"
       \/ run.entry = "build_prompt" /\ cache.best_prompt # None

\* C19: in a run that ends with a best-prompt result, the variations request
\* and the test-cases request carry the same meta-prompt text, and the run
\* made at most one expand call.
C19_SameMetaPrompt ==
    EndsWithBestPrompt =>
        LET expand == RequestsTo({"/meta-prompt"}, log)
            vary == RequestsTo({"/generate-variations"}, log)
            test == RequestsTo({"/generate-test-cases"}, log)
        IN  /\ Len(expand) <= 1
            /\ (vary # <<>> /\ test # <<>>)
                 => vary[1].body.meta_prompt = test[1].body.meta_prompt

\* every call of the run reached its endpoint and was answered by it
AllDelivered == \A k \in 1..Len(log) : log[k].status \notin {0, 404}

\* the run went through the loop over V variations and T test cases, V and
\* T at least 1, and has returned
CrossEvaluated == run.pc = "return" /\ run.variations # <<>> /\ run.test_cases # <<>>

\* C20: when every call reaches its endpoint, the response-generation
\* request of each of the V x T pairs is answered with 200 and followed by a
\* scoring request, V x T scoring requests in all, and the run ends with the
\* report on the best variation.
C20_CrossProduct ==
    (CrossEvaluated /\ AllDelivered) =>
        /\ \A q \in Elements(RequestsTo({"/generate-ai-response"}, log)) : q.status = 200
        /\ Len(RequestsTo({"/evaluate-response"}, log))
             = Len(run.variations) * Len(run.test_cases)
        /\ run.out.text[1] = "===== EVALUATION RESULTS ====="

\* no call of the run raised
NoneRaised == \A k \in 1..Len(log) : log[k].status # 0

\* the number of scores the run has collected
RECURSIVE Collected(_)
Collected(scores) == IF scores = <<>> THEN 0 ELSE Head(scores).count + Collected(Tail(scores))

RECURSIVE GenerateCount(_)
GenerateCount(n) ==
    IF n = 0 THEN 0
    ELSE GenerateCount(n - 1) + (IF log[n].endpoint = "/generate-ai-response" THEN 1 ELSE 0)

\* the scores carried by the successful scoring responses among the first n
\* of the log that belong to variation v (counted from 0): a scoring request
\* belongs to the pair of the response-generation request before it
RECURSIVE ScoresIn(_, _)
ScoresIn(v, n) ==
    IF n = 0 THEN <<>>
    ELSE ScoresIn(v, n - 1)
         \o (IF /\ log[n].endpoint = "/evaluate-response"
                /\ log[n].status = 200
                /\ (GenerateCount(n) - 1) \div Len(run.test_cases) = v
             THEN <<log[n].json[1]>> ELSE <<>>)

ScoresOfVariation(v) == ScoresIn(v, Len(log))

\* the sum of scores in tenths
RECURSIVE TenthsSum(_)
TenthsSum(values) ==
    IF values = <<>> THEN 0
    ELSE Head(values).n * Pow10(1 - Head(values).e) + TenthsSum(Tail(values))

\* is the mean of a less than the mean of b
MeanLt(a, b) == TenthsSum(a) * Len(b) < TenthsSum(b) * Len(a)

\* the variations with a collected score, and the lowest-indexed one of
\* maximal mean among them
Ranked == {v \in 0..(Len(run.variations) - 1) : ScoresOfVariation(v) # <<>>}

Best ==
    CHOOSE v \in Ranked :
        /\ \A w \in Ranked : ~MeanLt(ScoresOfVariation(v), ScoresOfVariation(w))
        /\ \A w \in Ranked : w < v => MeanLt(ScoresOfVariation(w), ScoresOfVariation(v))

\* the text a report shows under its best-prompt heading
RECURSIVE BestShown(_)
BestShown(text) ==
    IF text = <<>> THEN <<>>
    ELSE IF Head(text) = "===== BEST PROMPT =====" THEN SubSeq(text, 4, Len(text))
    ELSE BestShown(Tail(text))

\* C22: when the scoring loop has run to its end, the variations ranked are
\* exactly those with at least one collected score, in ascending index, each
\* with the mean of its collected scores as aggregate; the report shows the
\* lowest-indexed variation of maximal mean, and when no variation has a
\* score none is selected.
C22_RankingSelection ==
    (run.pc = "return" /\ run.variations # <<>>) =>
        /\ {run.scores[k].idx : k \in 1..Len(run.scores)} = Ranked
        /\ \A k \in 1..Len(run.scores) :
              /\ k > 1 => run.scores[k - 1].idx < run.scores[k].idx
              /\ run.scores[k].count = Len(ScoresOfVariation(run.scores[k].idx))
              /\ run.scores[k].sum.n * Pow10(1 - run.scores[k].sum.e)
                    = TenthsSum(ScoresOfVariation(run.scores[k].idx))
        /\ Ranked = {} =>
              run.out = Message(<<"Could not determine the best prompt due to evaluation errors.">>)
        /\ Ranked # {} => BestShown(run.out.text) = run.variations[Best + 1]

\* C22 witness: the averages are 6.0, 8.5 and 8.5 and the second variation
\* is shown as the best prompt
C22_Witness ==
    /\ run.pc = "return"
    /\ Len(run.variations) = 3
    /\ Len(run.scores) = 3
    /\ \A k \in 1..3 : run.scores[k].count = 1
    /\ run.scores[1].sum = MkDec(6, 0)
    /\ run.scores[2].sum = MkDec(85, 1)
    /\ run.scores[3].sum = MkDec(85, 1)
    /\ BestShown(run.out.text) = run.variations[2]

\* the lists the variations endpoint returned in the run
ReturnedVariations ==
    {log[k].json : k \in {m \in 1..Len(log) : /\ log[m].endpoint = "/generate-variations"
                                               /\ log[m].status = 200}}

\* C23: the list of variations _evaluate_prompts reads back from the
\* formatted Message equals, element for element, the list the variations
\* stage returned in the run.
C23_VariationsRoundTrip ==
    run.variations # <<>> => \A returned \in ReturnedVariations : run.variations = returned

\* C29: a run of build_prompt on a component without a base prompt issues
\* no API request.
C29_NoBasePromptNoRequest ==
    (run.entry = "build_prompt" /\ Falsy(attributes.base_prompt)) => log = <<>>

\* the stages of _run_full_optimization in their order, and the endpoints
\* each stage posts to
Stages == <<"meta_prompt", "variations", "test_cases", "best_prompt">>

StageEndpoints ==
    <<{"/meta-prompt"}, {"/generate-variations"}, {"/generate-test-cases"},
      {"/generate-ai-response", "/evaluate-response"}>>

\* the requests a step adds to the log
Issued == IF Len(log') >= Len(log) THEN SubSeq(log', Len(log) + 1, Len(log')) ELSE <<>>

\* a result stored for stage s carries the error marker
StoredError(s) == cache[Stages[s]] # None /\ HasError(cache[Stages[s]].text)

\* C30: while a stage's stored result carries the error marker, no step of
\* a build_prompt run issues a request for that stage or a later one, and
\* the run returns without a best prompt: 'Optimization not completed yet.'
\* or the stored error of the evaluation stage.  This holds up to the
\* refresh that clears the stored results.
C30_Step ==
    /\ run'.entry = "build_prompt" =>
          \A s \in 1..4 : StoredError(s) =>
              \A k \in 1..Len(Issued) : \A t \in s..4 : Issued[k].endpoint \notin StageEndpoints[t]
    /\ (run'.entry = "build_prompt" /\ run'.pc = "return"
          /\ \E s \in 1..4 : cache'[Stages[s]] # None /\ HasError(cache'[Stages[s]].text)) =>
          \/ run'.out = Message(<<"Optimization not completed yet.">>)
          \/ HasError(run'.out.text) /\ run'.out = cache'.best_prompt

C30_FailedStageMemoized == [][C30_Step]_vars

\* C30 witness: a later build_prompt has returned 'Optimization not
\* completed yet.' on the stored error of the variations stage without a
\* request
C30_Witness ==
    /\ run.entry = "build_prompt"
    /\ run.pc = "return"
    /\ log = <<>>
    /\ attributes.force_refresh = FALSE
    /\ cache.meta_prompt # None
    /\ ~HasError(cache.meta_prompt.text)
    /\ StoredError(2)
    /\ run.out = Message(<<"Optimization not completed yet.">>)

\* an invalidation is required: the refresh flag is set, or one of the six
\* tracked attributes differs from its recorded value
RefreshRequired ==
    \/ attributes.force_refresh
    \/ attributes.base_prompt # last_attributes.base_prompt
    \/ attributes.provider # last_attributes.provider
    \/ attributes.model # last_attributes.model
    \/ attributes.temperature # last_attributes.temperature
    \/ attributes.max_tokens # last_attributes.max_tokens
    \/ attributes.top_p # last_attributes.top_p

NothingStored(c) ==
    /\ c.meta_prompt = None
    /\ c.variations = None
    /\ c.test_cases = None
    /\ c.best_prompt = None

\* the head of an output request
C25_Step ==
    (run.pc = "idle" /\ run'.pc # "idle") =>
        /\ should_refresh(attributes, last_attributes) = RefreshRequired
        /\ RefreshRequired => NothingStored(cache')
        /\ ~RefreshRequired => cache' = cache

\* C25: a new component has none of the four results stored; at the head of
\* every output request _should_refresh is true exactly when the refresh
\* flag is set or one of the six tracked attributes differs from its
\* recorded value, in which case all four stored results are cleared, and
\* otherwise the stored results are left as they are.
C25_InvalidationExact == NothingStored(cache) /\ [][C25_Step]_vars

\* C25 witness: get_variations has cleared the stored results and recorded
\* the attributes on a change of the temperature alone
C25_Witness ==
    /\ run.entry = "get_variations"
    /\ run.pc = "expand"
    /\ log = <<>>
    /\ NothingStored(cache)
    /\ ~attributes.force_refresh
    /\ attributes.temperature = "0.2"
    /\ last_attributes = update_last_attributes(attributes)

\* the output a getter is bound to
Getters == {"get_meta_prompt", "get_variations", "get_test_cases", "get_best_prompt"}

\* C24: when a getter has produced its output with API calls and the same
\* getter is requested again with the refresh flag unset and the tracked
\* attributes unchanged, the request returns the Message produced before
\* without reaching a call.
C24_Step ==
    (/\ run.pc = "idle"
     /\ run.entry \in Getters
     /\ log # <<>>
     /\ ~RefreshRequired
     /\ run'.pc # "idle"
     /\ run'.entry = run.entry) =>
        /\ run'.pc = "return"
        /\ run'.out = run.out

C24_Memoized == [][C24_Step]_vars

\* is the list of numbers strictly increasing
StrictlyIncreasing(ids) == \A k \in 1..(Len(ids) - 1) : ids[k] < ids[k + 1]

\* C26: within each kind the ids of the created records are strictly
\* increasing in creation order, hence no id is assigned twice, also not
\* that of a record deleted since; every record of the store has an id that
\* was assigned to it and lies below the counter.
C26_IdsUnique ==
    \A kind \in Kinds :
        /\ StrictlyIncreasing(assigned[kind])
        /\ \A id \in DOMAIN storage.records[kind] :
              /\ id \in Elements(assigned[kind])
              /\ id < storage.current_ids[kind]

\* C26 witness: the first variation was created and deleted, a second one
\* was created with the next id and updated, and a call is scheduled
C26_Witness ==
    /\ assigned["variation"] = <<1, 2>>
    /\ DOMAIN storage.records["variation"] = {2}
    /\ storage.records["variation"][2] = "b"
    /\ \E t \in StoreTasks : calls[t].op = "delete"

\* C27: a request that reached /generate-ai-response without one of
\* systemPrompt, userInput and llm_config is answered with status 400.
C27_MissingFieldsAnswer400 ==
    \A k \in 1..Len(log) :
        (/\ log[k].endpoint = "/generate-ai-response"
         /\ log[k].status \notin {0, 404}
         /\ \/ MissingText(log[k].body, "systemPrompt")
            \/ MissingText(log[k].body, "userInput")
            \/ MissingDict(log[k].body, "llm_config"))
        => log[k].status = 400

\* C28: a stored meta prompt was fetched by a request made under the
\* attributes recorded in _last_attributes: every /meta-prompt request on
\* the log of the request that stored it carries the recorded base prompt
\* and model settings.
C28_NoStaleResult ==
    cache.meta_prompt # None =>
        \A k \in 1..Len(log) :
            log[k].endpoint = "/meta-prompt" =>
                log[k].body = MetaPromptRequest(last_attributes).body

====
